---- MODULE Spec2Model ----
(***************************************************************************)
(* ATHENA voice assistant: the capture -> mixdown -> windowed detection -> *)
(* state-transition pipeline.                                              *)
(*   MicrophoneArray   (software/audio/microphone.py)   : fields  mic[m]   *)
(*   WakeWordDetector  (software/audio/wake_word.py)    : fields  det[d]   *)
(*   Assistant         (software/core/assistant.py)     : fields  asst     *)
(* Every Python thread is a process of the model: the caller of the public *)
(* methods (main), the detection threads (dworker), the capture threads    *)
(* (cworker), the PortAudio callback and the interaction threads (flow).   *)
(* Confidences and thresholds are in hundredths (0.8 is 80); samples are   *)
(* exact fractions <<numerator, denominator>>.                             *)
(***************************************************************************)
EXTENDS Integers, Sequences, FiniteSets, TLC

\* ------------------------------------------------------------- bounds
MaxDetectors == 2       \* WakeWordDetector objects ever constructed
MaxMics == 2            \* MicrophoneArray objects ever constructed
MaxDWorkers == 2        \* detection threads ever started
MaxCWorkers == 2        \* capture threads ever started
MaxFlows == 2           \* interaction threads ever started (one per detection)
MaxFrames == 3          \* frames fed in the small scenarios
MaxQueueFrames == 102   \* frames fed in the queue-capacity scenarios
SampleRate == 2         \* sample_rate in Hz (window capacity is 1.5 x this)

\* -------------------------------------------------- program constants
MicQueueMaxSize == 100      \* queue.Queue(maxsize=100)
DetQueueMaxSize == 0        \* queue.Queue(): maxsize 0 means unbounded
DefaultThreshold == 80      \* trigger_threshold=0.8

RAISE == -1                 \* outcome "the call raised an exception"
NoThread == 0               \* None for a thread handle / object reference

Confidences == {0, 80, 90}
ScorerOutcomes == Confidences \cup {RAISE}
Thresholds == {-10, 0, 80, 100, 110}

DetectorIds == 1..MaxDetectors
MicIds == 1..MaxMics
DWorkerIds == 1..MaxDWorkers
CWorkerIds == 1..MaxCWorkers
FlowIds == 1..MaxFlows

VARIABLES
    det,        \* det[d]: the fields of WakeWordDetector object d
    dworker,    \* dworker[w]: detection thread w (its locals and position)
    mic,        \* mic[m]: the fields of MicrophoneArray object m
    cworker,    \* cworker[v]: capture thread v (its locals and position)
    asst,       \* the fields of the Assistant
    main,       \* the thread calling the public methods
    flow,       \* flow[k]: interaction thread k (_simulate_interaction)
    ss,         \* ss[t]: the _set_state call in progress on thread t
    detections, \* history: every invocation of a detection callback
    fed,        \* history: frames handed to process_audio / captured so far
    notes       \* history: per listener, the (IDLE, LISTENING) pairs received

vars == <<det, dworker, mic, cworker, asst, main, flow, ss, detections, fed, notes>>
detVars == <<det, dworker>>
micVars == <<mic, cworker>>
asstVars == <<asst, flow, ss, notes>>

\* ------------------------------------------------------------ samples
Zero == <<0, 1>>

Abs(x) == IF x < 0 THEN -x ELSE x

RECURSIVE Gcd(_, _)
Gcd(a, b) == IF b = 0 THEN a ELSE Gcd(b, a % b)

\* the fraction n/d (d # 0) in lowest terms with a positive denominator
Frac(n, d) ==
    LET g == Gcd(Abs(n), Abs(d))
        s == IF d < 0 THEN -1 ELSE 1
    IN  <<(s * n) \div g, (s * d) \div g>>

\* queue.Queue.full(): a maxsize of 0 never fills
QueueFull(q, maxsize) == maxsize > 0 /\ Len(q) >= maxsize

\* thread.join(timeout=2.0) can return: the thread has ended, or it is alive
\* and the 2.0 s have elapsed. Only a thread inside a call of unbounded
\* duration (the scorer, a callback, the opening of the device) or in the
\* 1.0 s sleep that follows one outlasts the 2.0 s; the 0.1 s queue poll and
\* the loop test do not.
\* a join without a timeout: it returns only when the thread has ended
JoinNoTimeout(alive, slow) == ~alive

JoinReturns(alive, slow) == (~alive) \/ (alive /\ slow)

\* ============================================================ detector
\* buffer_size = int(self.sample_rate * 1.5)
BufferSize == (SampleRate * 3) \div 2

\* np.zeros(buffer_size)
ZeroBuffer == [i \in 1..BufferSize |-> Zero]

\* np.roll(audio_buffer, -frame_size): element i comes from i + frame_size
Roll(audio_buffer, frame_size) ==
    LET n == Len(audio_buffer)
    IN  [i \in 1..n |-> audio_buffer[((i - 1 + frame_size) % n) + 1]]

\* audio_buffer[-frame_size:]: the slice's length (-0 is 0: the whole buffer)
TailLen(n, frame_size) ==
    IF frame_size = 0 \/ frame_size >= n THEN n ELSE frame_size

\* numpy raises ValueError when frame cannot be broadcast into the slice
AssignRaises(n, frame_size) ==
    /\ frame_size # TailLen(n, frame_size)
    /\ frame_size # 1

\* an update that appends the frame without discarding anything
AssignTailGrow(audio_buffer, data) == audio_buffer \o data

\* audio_buffer[-frame_size:] = frame   (when it does not raise)
AssignTail(audio_buffer, data) ==
    LET n == Len(audio_buffer)
        k == TailLen(n, Len(data))
    IN  [i \in 1..n |->
            IF i <= n - k THEN audio_buffer[i]
            ELSE IF Len(data) = 1 THEN data[1] ELSE data[i - (n - k)]]

NewDetector ==
    [made |-> TRUE, running |-> FALSE, state |-> "INACTIVE",
     audio_queue |-> <<>>, trigger_threshold |-> DefaultThreshold,
     detection_callback |-> "none", detection_thread |-> NoThread]

NoDetector == [NewDetector EXCEPT !.made = FALSE]

NoDWorker ==
    [det |-> 0, pc |-> "unborn", audio_buffer |-> ZeroBuffer,
     frame |-> 0, cd |-> FALSE, confidence |-> 0, logged |-> FALSE]

\* an exception handler that leaves the loop and ends the thread
OnLoopExceptionExit == "ended"

\* except Exception as e: logger.error(...) inside the while loop: the
\* thread goes back to the loop test
OnLoopException == "loop"

FreeDWorkers == {w \in DWorkerIds : dworker[w].pc = "unborn"}
FreshDWorker == CHOOSE w \in FreeDWorkers : \A x \in FreeDWorkers : w <= x

\* threading.Thread.is_alive() of the detector's current thread handle
DThreadAlive(d) ==
    /\ det[d].detection_thread # NoThread
    /\ dworker[det[d].detection_thread].pc # "ended"

\* the detector's thread is where it can outlast a join
DThreadSlow(d) ==
    /\ det[d].detection_thread # NoThread
    /\ dworker[det[d].detection_thread].pc \in
           {"score", "callback", "in_callback", "cooldown"}

InCooldown(d) == \E w \in DWorkerIds : dworker[w].det = d /\ dworker[w].pc = "cooldown"

\* WakeWordDetector.start(detection_callback): returns early when running
DetStart(d, cb) ==
    /\ det[d].made
    /\ IF det[d].running
       THEN UNCHANGED detVars
       ELSE /\ FreeDWorkers # {}
            /\ det' = [det EXCEPT ![d].running = TRUE,
                                  ![d].state = "LISTENING",
                                  ![d].detection_callback = cb,
                                  ![d].detection_thread = FreshDWorker]
            /\ dworker' = [dworker EXCEPT ![FreshDWorker] =
                              [NoDWorker EXCEPT !.det = d, !.pc = "loop"]]

\* a process_audio() without the test of self.running
DetProcessAudioUnguarded(d, frame) ==
    /\ det[d].made
    /\ det' = [det EXCEPT ![d].audio_queue = Append(@, frame)]

\* WakeWordDetector.process_audio(audio_frame): self.audio_queue.put(frame)
\* blocks while the queue is full (the frame's cd mark is history: it arrived
\* while a detection thread was in its time.sleep(1.0))
DetProcessAudio(d, frame) ==
    /\ det[d].made
    /\ IF det[d].running
       THEN /\ ~QueueFull(det[d].audio_queue, DetQueueMaxSize)
            /\ det' = [det EXCEPT ![d].audio_queue =
                        Append(@, [frame EXCEPT !.cd = InCooldown(d)])]
       ELSE UNCHANGED det

\* a set_sensitivity() without the range test
DetSetSensitivityUnchecked(d, threshold) ==
    /\ det[d].made
    /\ det' = [det EXCEPT ![d].trigger_threshold = threshold]

\* WakeWordDetector.set_sensitivity(threshold)
DetSetSensitivity(d, threshold) ==
    /\ det[d].made
    /\ IF 0 <= threshold /\ threshold <= 100
       THEN det' = [det EXCEPT ![d].trigger_threshold = threshold]
       ELSE UNCHANGED det

\* WakeWordDetector.stop(), up to the join: returns early when not running
DetStopBegin(d) ==
    /\ det[d].made
    /\ det[d].running
    /\ det' = [det EXCEPT ![d].running = FALSE]

\* WakeWordDetector.stop(), after the join
DetStopEnd(d) ==
    /\ JoinReturns(DThreadAlive(d), DThreadSlow(d))
    /\ det' = [det EXCEPT ![d].state = "INACTIVE"]

\* ------------------------------------------------ Assistant._set_state
ListenerIds == {1, 2}
FaultyListeners == {1}      \* listeners that may raise when called

MainTid == 0
WorkerTid(w) == w
FlowTid(k) == MaxDWorkers + k
Tids == 0..(MaxDWorkers + MaxFlows)

NoCall == [pc |-> "none", old |-> "IDLE", new |-> "IDLE", idx |-> 0, called |-> <<>>]

\* thread t calls self._set_state(new_state)
BeginSetState(new_state) == [NoCall EXCEPT !.pc = "read", !.new = new_state]

\* old_state = self.state
SetStateRead(t) ==
    /\ ss[t].pc = "read"
    /\ UNCHANGED <<det, dworker, mic, cworker, main, flow, detections, fed>>
    /\ ss' = [ss EXCEPT ![t].pc = "write", ![t].old = asst.state]
    /\ UNCHANGED <<asst, notes>>

\* self.state = new_state; the for loop over self.listeners comes next
SetStateWrite(t) ==
    /\ ss[t].pc = "write"
    /\ UNCHANGED <<det, dworker, mic, cworker, main, flow, detections, fed>>
    /\ asst' = [asst EXCEPT !.state = ss[t].new]
    /\ ss' = [ss EXCEPT ![t].pc = "notify", ![t].idx = 1]
    /\ UNCHANGED notes

\* one step of: for listener in self.listeners: listener(old_state, new_state)
\* The list iterator reads the live list at its index: past the end the loop
\* is over, otherwise the listener at the index is called. The test for the
\* next listener is a step of its own, made once the call has returned, so
\* the list can change in between. An exception leaves the loop and the
\* method.
SetStateNotify(t, raises) ==
    /\ ss[t].pc = "notify"
    /\ UNCHANGED <<det, dworker, mic, cworker, main, flow, detections, fed>>
    /\ UNCHANGED asst
    /\ IF ss[t].idx > Len(asst.listeners)
       THEN /\ ~raises
            /\ ss' = [ss EXCEPT ![t].pc = "done"]
            /\ UNCHANGED notes
       ELSE LET l == asst.listeners[ss[t].idx]
            IN  /\ raises => l \in FaultyListeners
                /\ notes' = IF ss[t].old = "IDLE" /\ ss[t].new = "LISTENING"
                            THEN [notes EXCEPT ![l] = @ + 1] ELSE notes
                /\ ss' = [ss EXCEPT
                        ![t].called = Append(@, l),
                        ![t].idx = @ + 1,
                        ![t].pc = IF raises THEN "raised" ELSE "notify"]

SetStateStep(t) ==
    \/ SetStateRead(t)
    \/ SetStateWrite(t)
    \/ \E raises \in BOOLEAN : SetStateNotify(t, raises)

\* ------------------------------------- WakeWordDetector._detection_loop
NoFlow == [pc |-> "unborn"]
FreeFlows == {k \in FlowIds : flow[k].pc = "unborn"}
FreshFlow == CHOOSE k \in FreeFlows : \A x \in FreeFlows : k <= x

\* a loop that never tests the flag: while True
LoopTestAlways(running) == TRUE

\* the loop test of both components' threads: while self.running
LoopTest(running) == running

\* while self.running:
DLoopCheck(w) ==
    /\ dworker[w].pc = "loop"
    /\ UNCHANGED <<mic, cworker, main, fed>>
    /\ dworker' = [dworker EXCEPT ![w].pc =
                      IF LoopTest(det[dworker[w].det].running) THEN "get" ELSE "ended"]
    /\ UNCHANGED <<det, asst, flow, ss, notes, detections>>

\* frame = self.audio_queue.get(timeout=0.1) and the window update
DGet(w) ==
    LET d == dworker[w].det
        q == det[d].audio_queue
    IN  /\ dworker[w].pc = "get"
        /\ UNCHANGED <<mic, cworker, main, fed>>
        /\ UNCHANGED <<asst, flow, ss, notes, detections>>
        /\ IF q = <<>>
           THEN /\ dworker' = [dworker EXCEPT ![w].pc = "loop"]   \* queue.Empty
                /\ UNCHANGED det
           ELSE LET frame == Head(q)
                    frame_size == Len(frame.data)
                    rolled == Roll(dworker[w].audio_buffer, frame_size)
                IN  /\ det' = [det EXCEPT ![d].audio_queue = Tail(q)]
                    /\ dworker' = [dworker EXCEPT
                          ![w].frame = frame.id,
                          ![w].cd = frame.cd,
                          ![w].audio_buffer =
                              IF AssignRaises(BufferSize, frame_size)
                              THEN rolled ELSE AssignTail(rolled, frame.data),
                          ![w].logged = @ \/ AssignRaises(BufferSize, frame_size),
                          ![w].pc =
                              IF AssignRaises(BufferSize, frame_size)
                              THEN OnLoopException ELSE "score"]

\* a threshold test that also fires on equality
ExceedsOrEquals(confidence, threshold) == confidence >= threshold

\* if confidence > self.trigger_threshold:
Exceeds(confidence, threshold) == confidence > threshold

\* confidence = self._detect_wake_word(audio_buffer), then the threshold test;
\* outcome is what the scorer returns for this window (RAISE: it raised)
DScore(w, outcome, maxDet) ==
    LET d == dworker[w].det
        fires == outcome # RAISE /\ Exceeds(outcome, det[d].trigger_threshold)
    IN  /\ dworker[w].pc = "score"
        /\ UNCHANGED <<mic, cworker, main, fed>>
        /\ fires => Len(detections) < maxDet
        /\ dworker' = [dworker EXCEPT
              ![w].confidence = IF outcome = RAISE THEN @ ELSE outcome,
              ![w].logged = @ \/ outcome = RAISE,
              ![w].pc = IF outcome = RAISE THEN OnLoopException
                        ELSE IF fires THEN "callback" ELSE "loop"]
        /\ det' = IF fires THEN [det EXCEPT ![d].state = "DETECTED"] ELSE det
        /\ UNCHANGED <<asst, flow, ss, notes, detections>>

\* if self.detection_callback: self.detection_callback(confidence)  (the call)
DCallback(w) ==
    LET d == dworker[w].det
        cb == det[d].detection_callback
    IN  /\ dworker[w].pc = "callback"
        /\ UNCHANGED <<mic, cworker, main, fed>>
        /\ UNCHANGED <<det, asst, flow, notes>>
        /\ IF cb = "none"
           THEN /\ dworker' = [dworker EXCEPT ![w].pc = "cooldown"]
                /\ UNCHANGED <<ss, detections>>
           ELSE /\ dworker' = [dworker EXCEPT ![w].pc = "in_callback"]
                /\ detections' = Append(detections,
                       [det |-> d, frame |-> dworker[w].frame,
                        confidence |-> dworker[w].confidence,
                        cd |-> dworker[w].cd])
                \* Assistant._on_wake_word_detected: self._set_state(LISTENING)
                /\ ss' = IF cb = "asst"
                         THEN [ss EXCEPT ![WorkerTid(w)] = BeginSetState("LISTENING")]
                         ELSE ss

\* a callback that waits for the interaction thread it started
AfterHandoffJoin == "join_flow"

\* where the detection thread is once _on_wake_word_detected has started the
\* interaction thread: the callback has returned, time.sleep(1.0) follows
AfterHandoff == "cooldown"

\* the callback returns or raises; Assistant._on_wake_word_detected ends with
\* threading.Thread(target=self._simulate_interaction).start()
DCallbackReturn(w, raises) ==
    LET t == WorkerTid(w)
    IN  /\ dworker[w].pc = "in_callback"
        /\ UNCHANGED <<mic, cworker, main, fed>>
        /\ UNCHANGED <<det, asst, notes, detections>>
        /\ IF ss[t].pc = "none"
           THEN \* a callback that is not the assistant's
                /\ dworker' = [dworker EXCEPT
                                  ![w].logged = @ \/ raises,
                                  ![w].pc = IF raises THEN OnLoopException
                                            ELSE "cooldown"]
                /\ UNCHANGED <<ss, flow>>
           ELSE /\ ss[t].pc \in {"done", "raised"}
                /\ raises = (ss[t].pc = "raised")
                /\ dworker' = [dworker EXCEPT
                                  ![w].logged = @ \/ raises,
                                  ![w].pc = IF raises THEN OnLoopException
                                            ELSE AfterHandoff]
                /\ IF raises
                   THEN /\ ss' = [ss EXCEPT ![t] = NoCall]
                        /\ UNCHANGED flow
                   ELSE /\ FreeFlows # {}
                        /\ ss' = [ss EXCEPT ![t] = NoCall,
                                            ![FlowTid(FreshFlow)] =
                                                BeginSetState("PROCESSING")]
                        /\ flow' = [flow EXCEPT ![FreshFlow].pc = "processing"]

\* time.sleep(1.0) ends; self.state = DetectionState.LISTENING
DCooldownEnd(w) ==
    /\ dworker[w].pc = "cooldown"
    /\ UNCHANGED <<mic, cworker, main, fed>>
    /\ dworker' = [dworker EXCEPT ![w].pc = "loop"]
    /\ det' = [det EXCEPT ![dworker[w].det].state = "LISTENING"]
    /\ UNCHANGED <<asst, flow, ss, notes, detections>>

\* ------------------------------------- Assistant._simulate_interaction
\* a workflow that does not return to IDLE after RESPONDING
StateAfterStay(state) == "RESPONDING"

\* the state _simulate_interaction sets after the given one
StateAfter(state) == IF state = "PROCESSING" THEN "RESPONDING" ELSE "IDLE"

\* the sleeps, and the three _set_state calls in turn; an exception out of
\* _set_state ends the thread
FlowStep(k) ==
    LET t == FlowTid(k)
    IN  /\ flow[k].pc \in {"processing", "responding", "idle"}
        /\ UNCHANGED <<det, dworker, mic, cworker, main, detections, fed>>
        /\ ss[t].pc \in {"done", "raised"}
        /\ UNCHANGED <<asst, notes>>
        /\ IF ss[t].pc = "raised"
           THEN /\ flow' = [flow EXCEPT ![k].pc = "died"]
                /\ ss' = [ss EXCEPT ![t] = NoCall]
           ELSE CASE flow[k].pc = "processing" ->
                       /\ flow' = [flow EXCEPT ![k].pc = "responding"]
                       /\ ss' = [ss EXCEPT ![t] = BeginSetState(StateAfter("PROCESSING"))]
                  [] flow[k].pc = "responding" ->
                       /\ flow' = [flow EXCEPT ![k].pc = "idle"]
                       /\ ss' = [ss EXCEPT ![t] = BeginSetState(StateAfter("RESPONDING"))]
                  [] flow[k].pc = "idle" ->
                       /\ flow' = [flow EXCEPT ![k].pc = "done"]
                       /\ ss' = [ss EXCEPT ![t] = NoCall]

\* ========================================================== microphone
Range(s) == {s[i] : i \in 1..Len(s)}

\* list.remove(x): drops the first occurrence
RECURSIVE SeqRemove(_, _)
SeqRemove(s, x) ==
    IF s = <<>> THEN <<>>
    ELSE IF Head(s) = x THEN Tail(s)
    ELSE <<Head(s)>> \o SeqRemove(Tail(s), x)

RECURSIVE SeqSum(_)
SeqSum(s) == IF s = <<>> THEN 0 ELSE Head(s) + SeqSum(Tail(s))

RatAbs(r) == <<Abs(r[1]), r[2]>>
RatLess(a, b) == a[1] * b[2] < b[1] * a[2]
RatDiv(a, b) == Frac(a[1] * b[2], a[2] * b[1])

\* np.abs(mono_audio).max()
RECURSIVE PeakOf(_)
PeakOf(mono) ==
    IF Len(mono) = 1 THEN RatAbs(mono[1])
    ELSE LET rest == PeakOf(Tail(mono))
         IN  IF RatLess(rest, RatAbs(mono[1])) THEN RatAbs(mono[1]) ELSE rest

\* a mixdown that stops at the channel average
ProcessAudioNoPeak(audio_data) ==
    [i \in 1..Len(audio_data) |->
        Frac(SeqSum(audio_data[i]), Len(audio_data[i]))]

\* MicrophoneArray._process_audio(audio_data): audio_data[i] is sample i's
\* channels; the mean over the channels, divided by the peak if it is not 0
\* (exact fractions stand for the float32 values)
ProcessAudio(audio_data) ==
    LET mean == [i \in 1..Len(audio_data) |->
                    Frac(SeqSum(audio_data[i]), Len(audio_data[i]))]
    IN  IF mean # <<>> /\ RatLess(Zero, PeakOf(mean))
        THEN [i \in 1..Len(mean) |-> RatDiv(mean[i], PeakOf(mean))]
        ELSE mean

SubscriberIds == {1, 2}
FaultySubscribers == {1}    \* subscribers that may raise when called

\* the lambda Assistant._init_components registers for detector d
DetSubscriber(d) == [kind |-> "det", id |-> d]
ExtSubscriber(j) == [kind |-> "ext", id |-> j]

NewMic ==
    [made |-> TRUE, running |-> FALSE, audio_queue |-> <<>>,
     callbacks |-> <<>>, capture_thread |-> NoThread]

NoMic == [NewMic EXCEPT !.made = FALSE]

NoFrame == [id |-> 0, data |-> <<>>, cd |-> FALSE]

NoCWorker ==
    [mic |-> 0, pc |-> "unborn", mono_audio |-> NoFrame, idx |-> 0,
     got |-> <<>>, res |-> "none"]

FreeCWorkers == {v \in CWorkerIds : cworker[v].pc = "unborn"}
FreshCWorker == CHOOSE v \in FreeCWorkers : \A x \in FreeCWorkers : v <= x

CThreadAlive(m) ==
    /\ mic[m].capture_thread # NoThread
    /\ cworker[mic[m].capture_thread].pc # "ended"

\* the capture thread is where it can outlast a join
CThreadSlow(m) ==
    /\ mic[m].capture_thread # NoThread
    /\ cworker[mic[m].capture_thread].pc \in {"open", "fanout"}

\* the sd.InputStream of some capture thread of m is open (inside the with)
StreamOpen(m) ==
    \E v \in CWorkerIds : cworker[v].mic = m /\ cworker[v].pc \in {"loop", "get", "fanout"}

\* a start_capture() without the test of self.running
MicStartCaptureUnguarded(m) ==
    /\ mic[m].made
    /\ FreeCWorkers # {}
    /\ mic' = [mic EXCEPT ![m].running = TRUE,
                          ![m].capture_thread = FreshCWorker]
    /\ cworker' = [cworker EXCEPT ![FreshCWorker] =
                      [NoCWorker EXCEPT !.mic = m, !.pc = "open"]]

\* MicrophoneArray.start_capture()
MicStartCapture(m) ==
    /\ mic[m].made
    /\ IF mic[m].running
       THEN UNCHANGED micVars
       ELSE /\ FreeCWorkers # {}
            /\ mic' = [mic EXCEPT ![m].running = TRUE,
                                  ![m].capture_thread = FreshCWorker]
            /\ cworker' = [cworker EXCEPT ![FreshCWorker] =
                              [NoCWorker EXCEPT !.mic = m, !.pc = "open"]]

\* MicrophoneArray.stop_capture(), up to the join
MicStopBegin(m) ==
    /\ mic[m].made
    /\ mic[m].running
    /\ mic' = [mic EXCEPT ![m].running = FALSE]

\* MicrophoneArray.stop_capture(), after the join
MicStopEnd(m) ==
    /\ JoinReturns(CThreadAlive(m), CThreadSlow(m))
    /\ UNCHANGED mic

\* an add_audio_callback() without the membership test
MicAddAudioCallbackAppend(m, callback) ==
    /\ mic[m].made
    /\ mic' = [mic EXCEPT ![m].callbacks = Append(@, callback)]

\* MicrophoneArray.add_audio_callback(callback)
MicAddAudioCallback(m, callback) ==
    /\ mic[m].made
    /\ mic' = IF callback \in Range(mic[m].callbacks) THEN mic
              ELSE [mic EXCEPT ![m].callbacks = Append(@, callback)]

\* MicrophoneArray.remove_audio_callback(callback)
MicRemoveAudioCallback(m, callback) ==
    /\ mic[m].made
    /\ mic' = IF callback \in Range(mic[m].callbacks)
              THEN [mic EXCEPT ![m].callbacks = SeqRemove(@, callback)]
              ELSE mic

\* a queue that makes room by dropping its oldest item instead
PutNowaitDropOldest(q, item, maxsize) ==
    IF QueueFull(q, maxsize) THEN Append(Tail(q), item) ELSE Append(q, item)

\* queue.Queue.put_nowait(item): queue.Full leaves the queue as it is
PutNowait(q, item, maxsize) == IF QueueFull(q, maxsize) THEN q ELSE Append(q, item)

\* MicrophoneArray._audio_callback(indata, ...), called by PortAudio while the
\* stream is open
MicAudioCallback(m, indata) ==
    /\ StreamOpen(m)
    /\ mic' = [mic EXCEPT ![m].audio_queue =
                  PutNowait(@, [id |-> fed + 1, data |-> indata], MicQueueMaxSize)]
    /\ fed' = fed + 1

\* ---------------------------------------- MicrophoneArray._capture_loop
\* with sd.InputStream(...): opening raises, or the stream starts
COpen(v, raises) ==
    /\ cworker[v].pc = "open"
    /\ UNCHANGED <<dworker, asst, main, flow, ss, notes, detections, fed>>
    /\ cworker' = [cworker EXCEPT ![v].pc = IF raises THEN "ended" ELSE "loop"]
    /\ mic' = IF raises THEN [mic EXCEPT ![cworker[v].mic].running = FALSE] ELSE mic
    /\ UNCHANGED det

\* while self.running:
CLoopCheck(v) ==
    /\ cworker[v].pc = "loop"
    /\ UNCHANGED <<dworker, asst, main, flow, ss, notes, detections, fed>>
    /\ cworker' = [cworker EXCEPT ![v].pc =
                      IF LoopTest(mic[cworker[v].mic].running) THEN "get" ELSE "ended"]
    /\ UNCHANGED <<mic, det>>

\* audio_data = self.audio_queue.get(timeout=0.1); mono_audio = ...
CGet(v) ==
    LET m == cworker[v].mic
        q == mic[m].audio_queue
    IN  /\ cworker[v].pc = "get"
        /\ UNCHANGED <<dworker, asst, main, flow, ss, notes, detections, fed>>
        /\ UNCHANGED det
        /\ IF q = <<>>
           THEN /\ cworker' = [cworker EXCEPT ![v].pc = "loop"]   \* queue.Empty
                /\ UNCHANGED mic
           ELSE /\ mic' = [mic EXCEPT ![m].audio_queue = Tail(q)]
                /\ cworker' = [cworker EXCEPT
                      ![v].mono_audio = [id |-> Head(q).id,
                                         data |-> ProcessAudio(Head(q).data),
                                         cd |-> FALSE],
                      ![v].idx = 1,
                      ![v].got = <<>>,
                      ![v].res = "none",
                      ![v].pc = "fanout"]

\* one step of: for callback in self.callbacks: callback(mono_audio, audio_data)
\* The list iterator reads the live list at its index: past the end the loop
\* is over, otherwise the callback at the index is called. The test for the
\* next callback is a step of its own, made once the call has returned, so
\* the list can change in between. An exception leaves the for loop: the
\* except clause is outside it.
CFanout(v, raises) ==
    LET m == cworker[v].mic
    IN  /\ cworker[v].pc = "fanout"
        /\ UNCHANGED <<dworker, asst, main, flow, ss, notes, detections, fed>>
        /\ UNCHANGED mic
        /\ IF cworker[v].idx > Len(mic[m].callbacks)
           THEN /\ ~raises
                /\ cworker' = [cworker EXCEPT ![v].pc = "loop", ![v].res = "ok"]
                /\ UNCHANGED det
           ELSE LET callback == mic[m].callbacks[cworker[v].idx]
                IN  /\ raises => callback.kind = "ext" /\ callback.id \in FaultySubscribers
                    /\ IF callback.kind = "det"
                       THEN DetProcessAudio(callback.id, cworker[v].mono_audio)
                       ELSE UNCHANGED det
                    /\ cworker' = [cworker EXCEPT
                          ![v].got = Append(@, callback),
                          ![v].idx = @ + 1,
                          ![v].res = IF raises THEN "raised" ELSE "none",
                          ![v].pc = IF raises THEN "loop" ELSE "fanout"]

\* ============================================================ assistant
EnabledSkills == {"system", "time", "weather"}

NoComponents == [microphone |-> 0, wake_word |-> 0]

FreeMics == {m \in MicIds : ~mic[m].made}
FreshMic == CHOOSE m \in FreeMics : \A x \in FreeMics : m <= x
FreeDetectors == {d \in DetectorIds : ~det[d].made}
FreshDetector == CHOOSE d \in FreeDetectors : \A x \in FreeDetectors : d <= x

Idle(last) == [pc |-> "idle", obj |-> 0, ret |-> "idle", last |-> last]

\* an _init_components that goes from the wiring to start_capture(), leaving
\* out the detector's start()
AfterWiringMicFirst == "start_mic"

\* what _init_components does after add_audio_callback: wake_word_detector.start
AfterWiring == "start_det"

\* Assistant.start(): _init_components up to the construction of the
\* detector. MicrophoneArray is constructed (it raises RuntimeError when no
\* device is found) and stored in self.components["microphone"]; then
\* WakeWordDetector.__init__ is entered, whose _load_model sleeps 1 s.
AsstStartBegin(raises) ==
    /\ main.pc = "idle"
    /\ UNCHANGED <<det, dworker, cworker, flow, notes, detections, fed>>
    /\ IF raises
       THEN /\ main' = [main EXCEPT !.pc = "start_set_error"]
            /\ ss' = [ss EXCEPT ![MainTid] = BeginSetState("ERROR")]
            /\ UNCHANGED <<mic, asst>>
       ELSE /\ FreeMics # {} /\ FreeDetectors # {}
            /\ mic' = [mic EXCEPT ![FreshMic] = NewMic]
            /\ asst' = [asst EXCEPT !.components.microphone = FreshMic]
            /\ main' = [main EXCEPT !.pc = "load_model"]
            /\ UNCHANGED ss

\* _load_model's sleep is over: the detector is constructed and stored in
\* self.components["wake_word"], and the lambda that feeds it is registered
\* with the microphone
AsstStartWire ==
    /\ main.pc = "load_model"
    /\ FreeDetectors # {}
    /\ det' = [det EXCEPT ![FreshDetector] = NewDetector]
    /\ asst' = [asst EXCEPT !.components.wake_word = FreshDetector]
    /\ MicAddAudioCallback(asst.components.microphone, DetSubscriber(FreshDetector))
    /\ main' = [main EXCEPT !.pc = AfterWiring]
    /\ UNCHANGED <<dworker, cworker, flow, ss, notes, detections, fed>>

\* wake_word_detector.start(detection_callback=self._on_wake_word_detected)
AsstStartDet ==
    /\ main.pc = "start_det"
    /\ DetStart(asst.components.wake_word, "asst")
    /\ main' = [main EXCEPT !.pc = "start_mic"]
    /\ UNCHANGED <<mic, cworker, asst, flow, ss, notes, detections, fed>>

\* mic_array.start_capture(): the capture thread exists from here on and runs
\* beside the rest of start()
AsstStartMic ==
    /\ main.pc = "start_mic"
    /\ MicStartCapture(asst.components.microphone)
    /\ main' = [main EXCEPT !.pc = "load_skills"]
    /\ UNCHANGED <<det, dworker, asst, flow, ss, notes, detections, fed>>

\* _init_components() has returned: self._load_skills()
AsstLoadSkills ==
    /\ main.pc = "load_skills"
    /\ asst' = [asst EXCEPT !.skills = EnabledSkills]
    /\ main' = [main EXCEPT !.pc = "set_idle"]
    /\ UNCHANGED <<det, dworker, mic, cworker, flow, ss, notes, detections, fed>>

\* start() calls self._set_state(AssistantState.IDLE)
AsstStartSetIdle ==
    /\ main.pc = "set_idle"
    /\ ss' = [ss EXCEPT ![MainTid] = BeginSetState("IDLE")]
    /\ main' = [main EXCEPT !.pc = "start_set_idle"]
    /\ UNCHANGED <<det, dworker, mic, cworker, asst, flow, notes, detections, fed>>

\* _set_state(IDLE) is over: return True, or the except clause calls
\* self._set_state(AssistantState.ERROR)
AsstStartSetIdleEnd ==
    /\ main.pc = "start_set_idle"
    /\ ss[MainTid].pc \in {"done", "raised"}
    /\ IF ss[MainTid].pc = "done"
       THEN /\ main' = Idle("start_true")
            /\ ss' = [ss EXCEPT ![MainTid] = NoCall]
       ELSE /\ main' = [main EXCEPT !.pc = "start_set_error"]
            /\ ss' = [ss EXCEPT ![MainTid] = BeginSetState("ERROR")]
    /\ UNCHANGED <<det, dworker, mic, cworker, asst, flow, notes, detections, fed>>

\* _set_state(ERROR) is over: return False, or its exception leaves start()
AsstStartSetErrorEnd ==
    /\ main.pc = "start_set_error"
    /\ ss[MainTid].pc \in {"done", "raised"}
    /\ main' = Idle(IF ss[MainTid].pc = "done" THEN "start_false" ELSE "start_raised")
    /\ ss' = [ss EXCEPT ![MainTid] = NoCall]
    /\ UNCHANGED <<det, dworker, mic, cworker, asst, flow, notes, detections, fed>>

\* hasattr(component, 'stop'): MicrophoneArray defines stop_capture, not stop
HasStop(name) == name = "wake_word"

\* self.components = {}; self.skills = {}; self._set_state(IDLE) begins
AsstStopClear ==
    /\ asst' = [asst EXCEPT !.components = NoComponents, !.skills = {}]
    /\ ss' = [ss EXCEPT ![MainTid] = BeginSetState("IDLE")]

\* Assistant.stop(): the loop over self.components calls component.stop() on
\* the components that have one; a stopped detector's stop() returns at once
AsstStopBegin ==
    LET d == asst.components.wake_word
    IN  /\ main.pc = "idle"
        /\ UNCHANGED <<dworker, mic, cworker, flow, notes, detections, fed>>
        /\ IF HasStop("wake_word") /\ d # 0 /\ det[d].running
           THEN /\ DetStopBegin(d)
                /\ main' = [main EXCEPT !.pc = "det_join", !.obj = d, !.ret = "asst_stop"]
                /\ UNCHANGED <<asst, ss>>
           ELSE /\ AsstStopClear
                /\ main' = [main EXCEPT !.pc = "stop_set_idle"]
                /\ UNCHANGED det

\* _set_state(IDLE) is over: stop() returns, or the exception leaves stop()
AsstStopSetIdleEnd ==
    /\ main.pc = "stop_set_idle"
    /\ ss[MainTid].pc \in {"done", "raised"}
    /\ main' = Idle(IF ss[MainTid].pc = "done" THEN "stop" ELSE "stop_raised")
    /\ ss' = [ss EXCEPT ![MainTid] = NoCall]
    /\ UNCHANGED <<det, dworker, mic, cworker, asst, flow, notes, detections, fed>>

\* Assistant.add_state_listener(listener)
AsstAddStateListener(listener) ==
    /\ main.pc = "idle"
    /\ asst' = IF listener \in Range(asst.listeners) THEN asst
               ELSE [asst EXCEPT !.listeners = Append(@, listener)]
    /\ UNCHANGED <<det, dworker, mic, cworker, main, flow, ss, notes, detections, fed>>

\* Assistant.remove_state_listener(listener)
AsstRemoveStateListener(listener) ==
    /\ main.pc = "idle"
    /\ asst' = IF listener \in Range(asst.listeners)
               THEN [asst EXCEPT !.listeners = SeqRemove(@, listener)]
               ELSE asst
    /\ UNCHANGED <<det, dworker, mic, cworker, main, flow, ss, notes, detections, fed>>

\* ------------------------------------- the components' methods, called directly
\* detector.start(detection_callback=cb)
CallDetStart(d, cb) ==
    /\ main.pc = "idle"
    /\ DetStart(d, cb)
    /\ main' = Idle("det_start")
    /\ UNCHANGED <<mic, cworker, asst, flow, ss, notes, detections, fed>>

\* detector.stop(): returns at once when not running, else waits in the join
CallDetStop(d) ==
    /\ main.pc = "idle"
    /\ det[d].made
    /\ UNCHANGED <<dworker, mic, cworker, asst, flow, ss, notes, detections, fed>>
    /\ IF det[d].running
       THEN /\ DetStopBegin(d)
            /\ main' = [main EXCEPT !.pc = "det_join", !.obj = d, !.ret = "idle"]
       ELSE /\ main' = Idle("det_stop")
            /\ UNCHANGED det

\* the join of detector.stop() returns; stop() ends (and Assistant.stop() goes on)
DetJoinReturn ==
    /\ main.pc = "det_join"
    /\ DetStopEnd(main.obj)
    /\ UNCHANGED <<dworker, mic, cworker, flow, notes, detections, fed>>
    /\ IF main.ret = "asst_stop"
       THEN /\ AsstStopClear
            /\ main' = [main EXCEPT !.pc = "stop_set_idle", !.obj = 0, !.ret = "idle"]
       ELSE /\ main' = Idle("det_stop")
            /\ UNCHANGED <<asst, ss>>

\* detector.set_sensitivity(threshold)
CallDetSetSensitivity(d, threshold) ==
    /\ main.pc = "idle"
    /\ DetSetSensitivity(d, threshold)
    /\ UNCHANGED <<dworker, mic, cworker, asst, main, flow, ss, notes, detections, fed>>

\* detector.process_audio(frame) by the thread that feeds the detector
CallDetProcessAudio(d, data, maxFed) ==
    /\ fed < maxFed
    /\ DetProcessAudio(d, [id |-> fed + 1, data |-> data, cd |-> FALSE])
    /\ fed' = fed + 1
    /\ UNCHANGED <<dworker, mic, cworker, asst, main, flow, ss, notes, detections>>

\* mic_array.start_capture()
CallMicStartCapture(m) ==
    /\ main.pc = "idle"
    /\ MicStartCapture(m)
    /\ main' = Idle(IF mic[m].running THEN "mic_start_warned" ELSE "mic_start")
    /\ UNCHANGED <<det, dworker, asst, flow, ss, notes, detections, fed>>

\* mic_array.stop_capture(): returns at once when not running
CallMicStopCapture(m) ==
    /\ main.pc = "idle"
    /\ mic[m].made
    /\ UNCHANGED <<det, dworker, cworker, asst, flow, ss, notes, detections, fed>>
    /\ IF mic[m].running
       THEN /\ MicStopBegin(m)
            /\ main' = [main EXCEPT !.pc = "mic_join", !.obj = m, !.ret = "idle"]
       ELSE /\ main' = Idle("mic_stop")
            /\ UNCHANGED mic

\* the join of mic_array.stop_capture() returns
MicJoinReturn ==
    /\ main.pc = "mic_join"
    /\ MicStopEnd(main.obj)
    /\ main' = Idle("mic_stop")
    /\ UNCHANGED <<det, dworker, cworker, asst, flow, ss, notes, detections, fed>>

CallMicAddAudioCallback(m, callback) ==
    /\ main.pc = "idle"
    /\ MicAddAudioCallback(m, callback)
    /\ UNCHANGED <<det, dworker, cworker, asst, main, flow, ss, notes, detections, fed>>

CallMicRemoveAudioCallback(m, callback) ==
    /\ main.pc = "idle"
    /\ MicRemoveAudioCallback(m, callback)
    /\ UNCHANGED <<det, dworker, cworker, asst, main, flow, ss, notes, detections, fed>>

\* PortAudio delivers a block to _audio_callback
HwCallback(m, indata, maxFed) ==
    /\ fed < maxFed
    /\ MicAudioCallback(m, indata)
    /\ UNCHANGED <<det, dworker, cworker, asst, main, flow, ss, notes, detections>>

\* ------------------------------------------------------ thread steps
DWorkerStep(w, maxDet) ==
    \/ DLoopCheck(w)
    \/ DGet(w)
    \/ \E outcome \in ScorerOutcomes : DScore(w, outcome, maxDet)
    \/ DCallback(w)
    \/ \E raises \in BOOLEAN : DCallbackReturn(w, raises)
    \/ DCooldownEnd(w)

CWorkerStep(v) ==
    \/ \E raises \in BOOLEAN : COpen(v, raises)
    \/ CLoopCheck(v)
    \/ CGet(v)
    \/ \E raises \in BOOLEAN : CFanout(v, raises)

\* ====================================================== specifications
MaxDetections == 2      \* windows the scorer puts above the threshold

\* the state after Assistant(): nothing constructed or started yet
InitBase ==
    /\ det = [d \in DetectorIds |-> NoDetector]
    /\ dworker = [w \in DWorkerIds |-> NoDWorker]
    /\ mic = [m \in MicIds |-> NoMic]
    /\ cworker = [v \in CWorkerIds |-> NoCWorker]
    /\ asst = [state |-> "IDLE", components |-> NoComponents, skills |-> {},
               listeners |-> <<>>]
    /\ main = Idle("none")
    /\ flow = [k \in FlowIds |-> NoFlow]
    /\ ss = [t \in Tids |-> NoCall]
    /\ detections = <<>>
    /\ fed = 0
    /\ notes = [l \in ListenerIds |-> 0]

\* a one-sample mono frame whose sample names the frame
OneSample(id) == <<<<id, 1>>>>

\* --- a WakeWordDetector on its own, driven through its public methods, with
\* --- a detection callback that is not the assistant's
InitGate ==
    /\ InitBase!2 /\ InitBase!3 /\ InitBase!4 /\ InitBase!5 /\ InitBase!6
    /\ InitBase!7 /\ InitBase!8 /\ InitBase!9 /\ InitBase!10 /\ InitBase!11
    /\ det = [d \in DetectorIds |-> IF d = 1 THEN NewDetector ELSE NoDetector]

NextGate ==
    \/ CallDetStart(1, "ext")
    \/ CallDetStop(1)
    \/ DetJoinReturn
    \/ CallDetProcessAudio(1, OneSample(fed + 1), MaxFrames)
    \/ \E w \in DWorkerIds : DWorkerStep(w, MaxDetections)

SpecGate == InitGate /\ [][NextGate]_vars

\* --- the detector's queue under load: many frames, a scorer that stays
\* --- below the threshold
NextGateQ ==
    \/ CallDetStart(1, "ext")
    \/ CallDetProcessAudio(1, OneSample(0), MaxQueueFrames)
    \/ \E w \in DWorkerIds : DLoopCheck(w)
    \/ \E w \in DWorkerIds : DGet(w)
    \/ \E w \in DWorkerIds : DScore(w, 0, 0)

SpecGateQ == InitGate /\ [][NextGateQ]_vars

\* --- the detector with a scorer that returns 0.0 for every window, while
\* --- the caller sets the sensitivity, stops and restarts
NextQuiet ==
    \/ CallDetStart(1, "ext")
    \/ CallDetStop(1)
    \/ DetJoinReturn
    \/ \E threshold \in Thresholds : CallDetSetSensitivity(1, threshold)
    \/ CallDetProcessAudio(1, OneSample(fed + 1), MaxFrames)
    \/ \E w \in DWorkerIds : DLoopCheck(w)
    \/ \E w \in DWorkerIds : DGet(w)
    \/ \E w \in DWorkerIds : DScore(w, 0, MaxDetections)

SpecQuiet == InitGate /\ [][NextQuiet]_vars

\* --- the detector with every scorer outcome, while the caller sets the
\* --- sensitivity, stops and restarts
NextSens ==
    \/ NextGate
    \/ \E threshold \in Thresholds : CallDetSetSensitivity(1, threshold)

SpecSens == InitGate /\ [][NextSens]_vars

\* --- the detector's sliding window: frames of every length, whose samples
\* --- are numbered in the order they are fed; a frame's id is the number of
\* --- its last sample, and the scorer stays below the threshold
MaxSamples == 8         \* samples fed in the window scenarios
FrameLengths == 0..(BufferSize + 1)

\* the n samples that follow sample number first
SampleRun(first, n) == [i \in 1..n |-> <<first + i, 1>>]

\* detector.process_audio(frame) with a frame of the next n samples
CallDetProcessSamples(d, n, maxFed) ==
    /\ fed + n <= maxFed
    /\ Len(det[d].audio_queue) < MaxFrames
    /\ DetProcessAudio(d, [id |-> fed + n, data |-> SampleRun(fed, n), cd |-> FALSE])
    /\ fed' = fed + n
    /\ UNCHANGED <<dworker, mic, cworker, asst, main, flow, ss, notes, detections>>

NextWindow ==
    \/ CallDetStart(1, "ext")
    \/ \E n \in FrameLengths : det[1].running /\ CallDetProcessSamples(1, n, MaxSamples)
    \/ \E w \in DWorkerIds : DLoopCheck(w)
    \/ \E w \in DWorkerIds : DGet(w)
    \/ \E w \in DWorkerIds : DScore(w, 0, 0)

SpecWindow == InitGate /\ [][NextWindow]_vars

\* --- a MicrophoneArray on its own, driven through its public methods and
\* --- by PortAudio
\* blocks of 2 samples x 2 channels, and a silent one
HwBlocks == {<<<<1, 3>>, <<-2, 0>>>>, <<<<0, 0>>, <<0, 0>>>>}
LoudBlock == <<<<1, 3>>, <<-2, 0>>>>

InitMic ==
    /\ InitBase!1 /\ InitBase!2 /\ InitBase!4 /\ InitBase!5 /\ InitBase!6
    /\ InitBase!7 /\ InitBase!8 /\ InitBase!9 /\ InitBase!10 /\ InitBase!11
    /\ mic = [m \in MicIds |-> IF m = 1 THEN NewMic ELSE NoMic]

\* no capture thread is running: the subscribers are registered at setup and
\* unregistered at teardown
NoCapture == \A v \in CWorkerIds : cworker[v].pc \in {"unborn", "ended"}

NextMic ==
    \/ \E j \in SubscriberIds : NoCapture /\ CallMicAddAudioCallback(1, ExtSubscriber(j))
    \/ \E j \in SubscriberIds : NoCapture /\ CallMicRemoveAudioCallback(1, ExtSubscriber(j))
    \/ CallMicStartCapture(1)
    \/ CallMicStopCapture(1)
    \/ MicJoinReturn
    \/ \E b \in HwBlocks : HwCallback(1, b, MaxFrames)
    \/ \E v \in CWorkerIds : CWorkerStep(v)

SpecMic == InitMic /\ [][NextMic]_vars

\* --- the microphone's queue under load: many blocks, one subscriber
NextMicQ ==
    \/ CallMicAddAudioCallback(1, ExtSubscriber(2))
    \/ CallMicStartCapture(1)
    \/ HwCallback(1, LoudBlock, MaxQueueFrames)
    \/ \E v \in CWorkerIds : COpen(v, FALSE)
    \/ \E v \in CWorkerIds : CLoopCheck(v)
    \/ \E v \in CWorkerIds : CGet(v)
    \/ \E v \in CWorkerIds : CFanout(v, FALSE)

SpecMicQ == InitMic /\ [][NextMicQ]_vars

MaxBlocks == 2          \* blocks the audio hardware delivers

\* --- the microphone with one subscriber, started (again and again) and
\* --- stopped by one caller
NextMicStart ==
    \/ CallMicAddAudioCallback(1, ExtSubscriber(2))
    \/ CallMicStartCapture(1)
    \/ CallMicStopCapture(1)
    \/ MicJoinReturn
    \/ HwCallback(1, LoudBlock, MaxBlocks)
    \/ \E v \in CWorkerIds : CWorkerStep(v)

SpecMicStart == InitMic /\ [][NextMicStart]_vars

\* --- both components on their own, started and stopped by one caller
MaxStopFrames == 1      \* frames fed in the stop scenarios
MaxStopStarts == 1      \* threads started per component in the stop scenarios

DStarted == Cardinality({w \in DWorkerIds : dworker[w].pc # "unborn"})
CStarted == Cardinality({v \in CWorkerIds : cworker[v].pc # "unborn"})

InitStop ==
    /\ InitBase!2 /\ InitBase!4 /\ InitBase!5 /\ InitBase!6
    /\ InitBase!7 /\ InitBase!8 /\ InitBase!9 /\ InitBase!10 /\ InitBase!11
    /\ det = [d \in DetectorIds |-> IF d = 1 THEN NewDetector ELSE NoDetector]
    /\ mic = [m \in MicIds |->
                IF m = 1 THEN [NewMic EXCEPT !.callbacks = <<ExtSubscriber(1)>>]
                ELSE NoMic]

NextStop ==
    \/ DStarted < MaxStopStarts /\ CallDetStart(1, "ext")
    \/ CallDetStop(1)
    \/ DetJoinReturn
    \/ CStarted < MaxStopStarts /\ CallMicStartCapture(1)
    \/ CallMicStopCapture(1)
    \/ MicJoinReturn
    \/ CallDetProcessAudio(1, OneSample(fed + 1), MaxStopFrames)
    \/ HwCallback(1, LoudBlock, MaxStopFrames)
    \/ \E w \in DWorkerIds :
          \/ DLoopCheck(w)
          \/ DGet(w)
          \/ \E outcome \in {0, 90} : DScore(w, outcome, MaxStopFrames)
          \/ DCallback(w)
          \/ DCallbackReturn(w, FALSE)
          \/ DCooldownEnd(w)
    \/ \E v \in CWorkerIds : CWorkerStep(v)

SpecStop == InitStop /\ [][NextStop]_vars

\* --- the detector stopped and restarted, with frames passed to it only
\* --- before the restart, and a scorer that stays below the threshold
NextRestart ==
    \/ CallDetStart(1, "ext")
    \/ CallDetStop(1)
    \/ DetJoinReturn
    \/ DStarted = 1 /\ CallDetProcessAudio(1, OneSample(fed + 1), MaxFrames)
    \/ \E w \in DWorkerIds : DLoopCheck(w)
    \/ \E w \in DWorkerIds : DGet(w)
    \/ \E w \in DWorkerIds : DScore(w, 0, MaxDetections)

SpecRestart == InitGate /\ [][NextRestart]_vars

\* --- the two registries: subscribers of a microphone and listeners of the
\* --- assistant, registered and removed in any order while nothing is being
\* --- fanned out, and notified (stop() on an assistant with no components
\* --- calls _set_state)
NextRegistry ==
    \/ \E j \in SubscriberIds : NoCapture /\ CallMicAddAudioCallback(1, ExtSubscriber(j))
    \/ \E j \in SubscriberIds : NoCapture /\ CallMicRemoveAudioCallback(1, ExtSubscriber(j))
    \/ \E l \in ListenerIds : AsstAddStateListener(l)
    \/ \E l \in ListenerIds : AsstRemoveStateListener(l)
    \/ CStarted < MaxStopStarts /\ CallMicStartCapture(1)
    \/ HwCallback(1, LoudBlock, MaxStopFrames)
    \/ \E v \in CWorkerIds : CWorkerStep(v)
    \/ AsstStopBegin
    \/ SetStateStep(MainTid)
    \/ AsstStopSetIdleEnd

SpecRegistry == InitMic /\ [][NextRegistry]_vars

\* --- the microphone with two subscribers while subscriber 1 is removed and
\* --- registered again by the caller, a fan-out in progress or not
InitRace ==
    /\ InitBase!1 /\ InitBase!2 /\ InitBase!4 /\ InitBase!5 /\ InitBase!6
    /\ InitBase!7 /\ InitBase!8 /\ InitBase!9 /\ InitBase!10 /\ InitBase!11
    /\ mic = [m \in MicIds |->
                IF m = 1 THEN [NewMic EXCEPT !.callbacks =
                                  <<ExtSubscriber(1), ExtSubscriber(2)>>]
                ELSE NoMic]

NextRace ==
    \/ CallMicRemoveAudioCallback(1, ExtSubscriber(1))
    \/ CallMicAddAudioCallback(1, ExtSubscriber(1))
    \/ CStarted < MaxStopStarts /\ CallMicStartCapture(1)
    \/ HwCallback(1, LoudBlock, MaxBlocks)
    \/ \E v \in CWorkerIds : COpen(v, FALSE)
    \/ \E v \in CWorkerIds : CLoopCheck(v)
    \/ \E v \in CWorkerIds : CGet(v)
    \/ \E v \in CWorkerIds : CFanout(v, FALSE)

SpecRace == InitRace /\ [][NextRace]_vars

\* --- the mixdown: a running microphone whose queue holds one block of the
\* --- hardware, any block over the levels below
MicChannels == 2        \* channels of a block (the constructor's channels)
MaxLevel == 1           \* a channel's sample is in -MaxLevel..MaxLevel
MaxMixSamples == 2      \* samples of a block (the constructor's chunk_size)

RECURSIVE Tuples(_, _)
Tuples(S, n) ==
    IF n = 0 THEN {<<>>}
    ELSE {<<x>> \o t : x \in S, t \in Tuples(S, n - 1)}

MixBlocks ==
    UNION {Tuples(Tuples(-MaxLevel..MaxLevel, MicChannels), n) : n \in 1..MaxMixSamples}

InitMixdown ==
    /\ InitBase!1 /\ InitBase!2 /\ InitBase!5 /\ InitBase!6
    /\ InitBase!7 /\ InitBase!8 /\ InitBase!9 /\ InitBase!11
    /\ \E indata \in MixBlocks :
          mic = [m \in MicIds |->
                   IF m = 1
                   THEN [NewMic EXCEPT !.running = TRUE, !.capture_thread = 1,
                                       !.callbacks = <<ExtSubscriber(1)>>,
                                       !.audio_queue = <<[id |-> 1, data |-> indata]>>]
                   ELSE NoMic]
    /\ cworker = [v \in CWorkerIds |->
                    IF v = 1 THEN [NoCWorker EXCEPT !.mic = 1, !.pc = "loop"]
                    ELSE NoCWorker]
    /\ fed = 1

NextMixdown ==
    \/ \E v \in CWorkerIds : CLoopCheck(v)
    \/ \E v \in CWorkerIds : CGet(v)
    \/ \E v \in CWorkerIds : CFanout(v, FALSE)

SpecMixdown == InitMixdown /\ [][NextMixdown]_vars

\* --- the choice of the capture device at construction
MaxDevices == 2         \* devices PortAudio enumerates

\* names are sequences of letters; str.lower() maps a letter to its lower case
LowerChar(c) == IF c = "A" THEN "a" ELSE IF c = "B" THEN "b" ELSE c
StrLower(s) == [i \in 1..Len(s) |-> LowerChar(s[i])]

\* the str operator 'in': sub occurs in s as a contiguous run
StrIn(sub, s) ==
    \E k \in 0..(Len(s) - Len(sub)) : SubSeq(s, k + 1, k + Len(sub)) = sub

\* device_name: None, or a str
NoName == [none |-> TRUE, str |-> <<>>]
Name(s) == [none |-> FALSE, str |-> s]

\* the truth value of device_name: None and '' are false
Truthy(device_name) == ~device_name.none /\ device_name.str # <<>>

DeviceNames == {<<"a", "b">>, <<"A", "B">>, <<"a">>}
NameHints == {NoName, Name(<<>>), Name(<<"a">>), Name(<<"B">>), Name(<<"b", "a">>)}
Devices == [name : DeviceNames, max_input_channels : {0, MicChannels}]
DeviceLists == UNION {Tuples(Devices, n) : n \in 0..MaxDevices}

\* the input-capable test of a mutant that takes every device
IsInputAny(device) == TRUE

\* if device['max_input_channels'] > 0
IsInput(device) == device.max_input_channels > 0

\* the for loop of _find_audio_device from index i (0-based) on: the index at
\* which it breaks, or -1 (device_id stays None) when it runs to the end
RECURSIVE FindFrom(_, _, _)
FindFrom(devices, i, device_name) ==
    IF i >= Len(devices) THEN -1
    ELSE IF /\ IsInput(devices[i + 1])
            /\ Truthy(device_name)
            /\ StrIn(StrLower(device_name.str), StrLower(devices[i + 1].name))
         THEN i
         ELSE FindFrom(devices, i + 1, device_name)

\* sd.query_devices(device_id) raises for an index PortAudio does not know
\* (sd.default.device[0] is -1 when there is no default input device)
QueryDevicesRaises(devices, device_id) == device_id \notin 0..(Len(devices) - 1)

\* MicrophoneArray._find_audio_device(): the device_id it leaves, or RAISE
FindAudioDevice(devices, device_name, default) ==
    LET found == FindFrom(devices, 0, device_name)
    IN  IF found # -1 THEN found
        ELSE IF QueryDevicesRaises(devices, default) THEN RAISE
        ELSE default

\* MicrophoneArray(device_name=...) where PortAudio enumerates devices and
\* names default as the default input device; a construction that raises
\* leaves no object (made is FALSE)
MicInit(m, devices, device_name, default) ==
    /\ ~mic[m].made
    /\ mic' = [mic EXCEPT ![m] =
                 [made |-> FindAudioDevice(devices, device_name, default) # RAISE,
                  running |-> FALSE, audio_queue |-> <<>>,
                  callbacks |-> <<>>, capture_thread |-> NoThread,
                  device_name |-> device_name,
                  device_id |-> FindAudioDevice(devices, device_name, default),
                  \* history: what PortAudio answered at construction
                  pa_devices |-> devices, pa_default |-> default]]

CallMicInit(m, devices, device_name, default) ==
    /\ main.pc = "idle"
    /\ main.last = "none"
    /\ MicInit(m, devices, device_name, default)
    /\ main' = Idle(IF FindAudioDevice(devices, device_name, default) = RAISE
                    THEN "mic_init_raised" ELSE "mic_init")
    /\ UNCHANGED <<det, dworker, cworker, asst, flow, ss, notes, detections, fed>>

NextDevice ==
    \/ /\ main.last = "none"
       /\ \E devices \in DeviceLists, device_name \in NameHints,
             default \in -1..(MaxDevices - 1) :
             /\ default < Len(devices)
             /\ CallMicInit(1, devices, device_name, default)
    \/ CallMicStartCapture(1)
    \/ \E v \in CWorkerIds : \E raises \in BOOLEAN : COpen(v, raises)
    \/ \E v \in CWorkerIds : CLoopCheck(v)
    \/ \E v \in CWorkerIds : CGet(v)

SpecDevice == InitBase /\ [][NextDevice]_vars

\* --- the assistant: start(), stop(), and every thread they set going
Init == InitBase

\* listeners are registered before the first start()
Setup == main.last = "none"

\* the run is one start() and then one stop()
AfterStart == main.last \in {"start_true", "start_false", "start_raised"}

MaxWakes == 1         \* detections while listeners are registered

Next ==
    \/ \E l \in ListenerIds : Setup /\ AsstAddStateListener(l)
    \/ \E raises \in BOOLEAN : Setup /\ AsstStartBegin(raises)
    \/ AsstStartWire
    \/ AsstStartDet
    \/ AsstStartMic
    \/ AsstLoadSkills
    \/ AsstStartSetIdle
    \/ AsstStartSetIdleEnd
    \/ AsstStartSetErrorEnd
    \/ AfterStart /\ AsstStopBegin
    \/ DetJoinReturn
    \/ AsstStopSetIdleEnd
    \/ \E m \in MicIds : HwCallback(m, LoudBlock, MaxBlocks)
    \/ \E v \in CWorkerIds :
          \/ \E raises \in BOOLEAN : COpen(v, raises)
          \/ CLoopCheck(v)
          \/ CGet(v)
          \/ CFanout(v, FALSE)
    \/ \E w \in DWorkerIds :
          \/ DLoopCheck(w)
          \/ DGet(w)
          \/ \E outcome \in {0, 90} : DScore(w, outcome, MaxWakes)
          \/ DCallback(w)
          \/ \E raises \in BOOLEAN : DCallbackReturn(w, raises)
          \/ DCooldownEnd(w)
    \/ \E t \in Tids : SetStateStep(t)
    \/ \E k \in FlowIds : FlowStep(k)

Spec == Init /\ [][Next]_vars

\* --- the assistant once started, with no listeners: wake words in a row
NextWake ==
    \/ Setup /\ AsstStartBegin(FALSE)
    \/ AsstStartWire
    \/ AsstStartDet
    \/ AsstStartMic
    \/ AsstLoadSkills
    \/ AsstStartSetIdle
    \/ AsstStartSetIdleEnd
    \/ \E m \in MicIds : HwCallback(m, LoudBlock, MaxBlocks)
    \/ \E v \in CWorkerIds :
          \/ COpen(v, FALSE)
          \/ CLoopCheck(v)
          \/ CGet(v)
          \/ CFanout(v, FALSE)
    \/ \E w \in DWorkerIds :
          \/ DLoopCheck(w)
          \/ DGet(w)
          \/ \E outcome \in {0, 90} : DScore(w, outcome, MaxDetections)
          \/ DCallback(w)
          \/ DCallbackReturn(w, FALSE)
          \/ DCooldownEnd(w)
    \/ \E t \in Tids : SetStateRead(t) \/ SetStateWrite(t) \/ SetStateNotify(t, FALSE)
    \/ \E k \in FlowIds : FlowStep(k)

SpecWake == Init /\ [][NextWake]_vars

\* --- the assistant's pipeline: one start() and one stop(), blocks from the
\* --- hardware, a scorer that stays below the threshold
NextWire ==
    \/ Setup /\ AsstStartBegin(FALSE)
    \/ AsstStartWire
    \/ AsstStartDet
    \/ AsstStartMic
    \/ AsstLoadSkills
    \/ AsstStartSetIdle
    \/ AsstStartSetIdleEnd
    \/ AfterStart /\ AsstStopBegin
    \/ DetJoinReturn
    \/ AsstStopSetIdleEnd
    \/ \E m \in MicIds : HwCallback(m, LoudBlock, MaxBlocks)
    \/ \E v \in CWorkerIds :
          \/ \E raises \in BOOLEAN : COpen(v, raises)
          \/ CLoopCheck(v)
          \/ CGet(v)
          \/ CFanout(v, FALSE)
    \/ \E w \in DWorkerIds : DLoopCheck(w)
    \/ \E w \in DWorkerIds : DGet(w)
    \/ \E w \in DWorkerIds : DScore(w, 0, 0)
    \/ SetStateRead(MainTid)
    \/ SetStateWrite(MainTid)
    \/ SetStateNotify(MainTid, FALSE)

SpecWire == Init /\ [][NextWire]_vars

\* --- one start() and the assistant left running, no wake word: the device
\* --- opens or fails to open, and blocks arrive as soon as the stream is open
NextStart ==
    \/ Setup /\ AsstStartBegin(FALSE)
    \/ AsstStartWire
    \/ AsstStartDet
    \/ AsstStartMic
    \/ AsstLoadSkills
    \/ AsstStartSetIdle
    \/ AsstStartSetIdleEnd
    \/ \E m \in MicIds : HwCallback(m, LoudBlock, MaxBlocks)
    \/ \E v \in CWorkerIds :
          \/ \E raises \in BOOLEAN : COpen(v, raises)
          \/ CLoopCheck(v)
          \/ CGet(v)
          \/ CFanout(v, FALSE)
    \/ \E w \in DWorkerIds : DLoopCheck(w)
    \/ \E w \in DWorkerIds : DGet(w)
    \/ \E w \in DWorkerIds : DScore(w, 0, 0)
    \/ SetStateRead(MainTid)
    \/ SetStateWrite(MainTid)
    \/ SetStateNotify(MainTid, FALSE)

SpecStart == Init /\ [][NextStart]_vars

\* --- the assistant started and stopped any number of times, in any order;
\* --- no audio arrives
NextTwice ==
    \/ AsstStartBegin(FALSE)
    \/ AsstStartWire
    \/ AsstStartDet
    \/ AsstStartMic
    \/ AsstLoadSkills
    \/ AsstStartSetIdle
    \/ AsstStartSetIdleEnd
    \/ AsstStopBegin
    \/ DetJoinReturn
    \/ AsstStopSetIdleEnd
    \/ \E v \in CWorkerIds :
          \/ COpen(v, FALSE)
          \/ CLoopCheck(v)
          \/ CGet(v)
    \/ \E w \in DWorkerIds : DLoopCheck(w)
    \/ \E w \in DWorkerIds : DGet(w)
    \/ SetStateRead(MainTid)
    \/ SetStateWrite(MainTid)
    \/ SetStateNotify(MainTid, FALSE)

SpecTwice == Init /\ [][NextTwice]_vars

\* --- the assistant with no listeners: one start(), blocks from the hardware
\* --- as soon as the stream is open, one wake word and no other, the
\* --- interaction thread it sets going, and one stop()
NextFlow ==
    \/ Setup /\ AsstStartBegin(FALSE)
    \/ AsstStartWire
    \/ AsstStartDet
    \/ AsstStartMic
    \/ AsstLoadSkills
    \/ AsstStartSetIdle
    \/ AsstStartSetIdleEnd
    \/ AfterStart /\ AsstStopBegin
    \/ DetJoinReturn
    \/ AsstStopSetIdleEnd
    \/ \E m \in MicIds : HwCallback(m, LoudBlock, MaxWakes)
    \/ \E v \in CWorkerIds :
          \/ COpen(v, FALSE)
          \/ CLoopCheck(v)
          \/ CGet(v)
          \/ CFanout(v, FALSE)
    \/ \E w \in DWorkerIds :
          \/ DLoopCheck(w)
          \/ DGet(w)
          \/ \E outcome \in {0, 90} : DScore(w, outcome, 1)
          \/ DCallback(w)
          \/ DCallbackReturn(w, FALSE)
          \/ DCooldownEnd(w)
    \/ \E t \in Tids : SetStateRead(t) \/ SetStateWrite(t) \/ SetStateNotify(t, FALSE)
    \/ \E k \in FlowIds : FlowStep(k)

SpecFlow == Init /\ [][NextFlow]_vars

\* an interaction thread that can run is run in the end: its sleeps end and
\* its _set_state calls are scheduled
FairFlow ==
    \A k \in FlowIds :
        WF_vars(\/ FlowStep(k)
                \/ SetStateRead(FlowTid(k))
                \/ SetStateWrite(FlowTid(k))
                \/ SetStateNotify(FlowTid(k), FALSE))

SpecFlowFair == SpecFlow /\ FairFlow

\* --- the assistant started and left running: two blocks from the hardware,
\* --- the first as soon as the stream is open (start() may still be at work),
\* --- wake words and the interaction threads they set going
NextHandoff ==
    \/ Setup /\ AsstStartBegin(FALSE)
    \/ AsstStartWire
    \/ AsstStartDet
    \/ AsstStartMic
    \/ AsstLoadSkills
    \/ AsstStartSetIdle
    \/ AsstStartSetIdleEnd
    \/ \E m \in MicIds : HwCallback(m, LoudBlock, 2)
    \/ \E v \in CWorkerIds :
          \/ COpen(v, FALSE)
          \/ CLoopCheck(v)
          \/ CGet(v)
          \/ CFanout(v, FALSE)
    \/ \E w \in DWorkerIds :
          \/ DLoopCheck(w)
          \/ DGet(w)
          \/ \E outcome \in {0, 90} : DScore(w, outcome, MaxWakes)
          \/ DCallback(w)
          \/ DCallbackReturn(w, FALSE)
          \/ DCooldownEnd(w)
    \/ \E t \in Tids : SetStateRead(t) \/ SetStateWrite(t) \/ SetStateNotify(t, FALSE)
    \/ \E k \in FlowIds : FlowStep(k)

SpecHandoff == Init /\ [][NextHandoff]_vars

\* --- the detector with a scorer and a callback that may raise
MaxFaultFrames == 2     \* frames fed in the failure scenarios

NextFault ==
    \/ DStarted < MaxStopStarts /\ CallDetStart(1, "ext")
    \/ CallDetStop(1)
    \/ DetJoinReturn
    \/ CallDetProcessAudio(1, OneSample(fed + 1), MaxFaultFrames)
    \/ \E w \in DWorkerIds : DWorkerStep(w, MaxDetections)

SpecFault == InitGate /\ [][NextFault]_vars

\* --- the detector started once and never stopped, fed frames of every
\* --- length while its thread scores, detects and sleeps
NextHold ==
    \/ DStarted < MaxStopStarts /\ CallDetStart(1, "ext")
    \/ \E n \in FrameLengths : det[1].running /\ CallDetProcessSamples(1, n, MaxSamples)
    \/ \E w \in DWorkerIds :
          \/ DLoopCheck(w)
          \/ DGet(w)
          \/ \E outcome \in {0, 90} : DScore(w, outcome, MaxDetections)
          \/ DCallback(w)
          \/ DCallbackReturn(w, FALSE)
          \/ DCooldownEnd(w)

SpecHold == InitGate /\ [][NextHold]_vars

\* --- either component on its own, started once and stopped, with frames
\* --- queued
DWorkerStepCancel(w) ==
    \/ DLoopCheck(w)
    \/ DGet(w)
    \/ \E outcome \in {RAISE, 0, 90} : DScore(w, outcome, MaxWakes)
    \/ DCallback(w)
    \/ \E raises \in BOOLEAN : DCallbackReturn(w, raises)
    \/ DCooldownEnd(w)

NextCancel ==
    \/ DStarted < MaxStopStarts /\ CallDetStart(1, "ext")
    \/ CallDetStop(1)
    \/ DetJoinReturn
    \/ CStarted < MaxStopStarts /\ CallMicStartCapture(1)
    \/ CallMicStopCapture(1)
    \/ MicJoinReturn
    \/ CallDetProcessAudio(1, OneSample(fed + 1), MaxFrames)
    \/ HwCallback(1, LoudBlock, MaxFrames)
    \/ \E w \in DWorkerIds : DWorkerStepCancel(w)
    \/ \E v \in CWorkerIds : CWorkerStep(v)

\* one of the two components has been constructed
InitCancel ==
    /\ InitBase!2 /\ InitBase!4 /\ InitBase!5 /\ InitBase!6
    /\ InitBase!7 /\ InitBase!8 /\ InitBase!9 /\ InitBase!10 /\ InitBase!11
    /\ \/ /\ det = [d \in DetectorIds |-> IF d = 1 THEN NewDetector ELSE NoDetector]
          /\ mic = [m \in MicIds |-> NoMic]
       \/ /\ det = [d \in DetectorIds |-> NoDetector]
          /\ mic = [m \in MicIds |->
                      IF m = 1 THEN [NewMic EXCEPT !.callbacks = <<ExtSubscriber(1)>>]
                      ELSE NoMic]

SpecCancel == InitCancel /\ [][NextCancel]_vars

\* =============================================================== claims
\* the caller is inside detector d's stop(), waiting in the join
InDetStop(d) == main.pc = "det_join" /\ main.obj = d

\* C2: after a detection, no detection fires for a frame that was passed to
\* process_audio within the cooldown of an earlier detection (here: while a
\* detection thread of that detector was in its time.sleep(1.0)).
C2_NoDetectionForCooldownFrame ==
    \A i \in 1..Len(detections) : ~detections[i].cd

\* C9: once stop() has returned on a detector and until the next start(),
\* get_state() is INACTIVE.
C9_InactiveAfterStop ==
    \A d \in DetectorIds :
        (det[d].made /\ ~det[d].running /\ ~InDetStop(d))
            => det[d].state = "INACTIVE"

\* C7: the detector's queue is bounded like the microphone's: it never holds
\* more frames than the capacity the handoff queues are given (100).
C7_DetQueueBounded ==
    \A d \in DetectorIds : Len(det[d].audio_queue) <= MicQueueMaxSize

\* C6: the PortAudio callback can always run while the stream is open (it never
\* waits for room), the microphone's queue never holds more than 100 blocks,
\* and a block pushed while it holds 100 leaves it unchanged (the new block is
\* the one dropped, the queued ones keep their order).
C6_DropNewestWhenFull ==
    /\ [](\A m \in MicIds :
            (StreamOpen(m) /\ fed < MaxQueueFrames)
                => ENABLED HwCallback(m, LoudBlock, MaxQueueFrames))
    /\ [][\A m \in MicIds :
            /\ Len(mic'[m].audio_queue) <= MicQueueMaxSize
            /\ (fed' # fed /\ Len(mic[m].audio_queue) = MicQueueMaxSize)
                  => mic'[m].audio_queue = mic[m].audio_queue]_vars

\* C5: when the fan-out of a dequeued block is over, every registered
\* subscriber has been called with it, in registration order, also when one
\* of them raised.
C5_EverySubscriberCalled ==
    \A v \in CWorkerIds :
        cworker[v].res # "none" => cworker[v].got = mic[cworker[v].mic].callbacks

\* a block has been pushed at a full queue (one more captured than queued or
\* taken out)
C6_Witness ==
    /\ Len(mic[1].audio_queue) = MicQueueMaxSize
    /\ fed > mic[1].audio_queue[MicQueueMaxSize].id

\* C10: stop() of the detector and stop_capture() of the microphone always
\* return and leave the running flag false: while the caller waits in the
\* join, either the join can return (the thread has ended or the timeout has
\* elapsed) or the thread is in one of its bounded steps (the loop test, the
\* 0.1 s queue poll), after which it has ended or the timeout can elapse.
C10_StopTerminates ==
    /\ (main.pc = "idle" /\ main.last = "det_stop") => ~det[1].running
    /\ (main.pc = "idle" /\ main.last = "mic_stop") => ~mic[1].running
    /\ main.pc = "det_join" =>
          \/ ENABLED DetJoinReturn
          \/ ENABLED (DLoopCheck(det[main.obj].detection_thread)
                        \/ DGet(det[main.obj].detection_thread))
    /\ main.pc = "mic_join" =>
          \/ ENABLED MicJoinReturn
          \/ ENABLED (CLoopCheck(mic[main.obj].capture_thread)
                        \/ CGet(mic[main.obj].capture_thread))

\* both stops have returned while their threads were still alive
C10_Witness ==
    /\ main.pc = "idle" /\ main.last = "mic_stop"
    /\ ~mic[1].running /\ CThreadAlive(1)
    /\ ~det[1].running /\ DThreadAlive(1)

\* C1: once start() has returned True, a detection event changes the
\* assistant state to LISTENING only when the current state is IDLE (the one
\* transition into LISTENING the table has): whenever the detection worker's
\* _set_state(LISTENING) changes self.state, the state before was IDLE.
C1_DetectionOnlyFromIdle ==
    [][\A w \in DWorkerIds :
          (/\ main.last = "start_true"
           /\ ss[WorkerTid(w)].pc = "write"
           /\ ss'[WorkerTid(w)].pc # "write"
           /\ asst'.state # asst.state)
             => asst.state = "IDLE"]_vars

\* C3: in a started assistant whose scorer exceeded the threshold for one
\* window only, once the detection callback is over there is exactly one
\* detection, with the scorer's confidence, and every registered listener has
\* recorded exactly one (IDLE, LISTENING) transition.
C3_OneDetectionOneTransition ==
    (/\ main.last = "start_true"
     /\ Len(detections) = MaxWakes
     /\ \A w \in DWorkerIds : dworker[w].pc \notin {"callback", "in_callback"})
        => /\ detections[1].confidence = 90
           /\ \A l \in Range(asst.listeners) : notes[l] = 1

\* C4: a _set_state call that is over has called every registered listener
\* once, in registration order, and no listener's exception has left the call.
C4_EveryListenerCalled ==
    \A t \in Tids : ss[t].pc \in {"done", "raised"}
        => /\ ss[t].pc = "done"
           /\ ss[t].called = asst.listeners

\* C8: once stop() has returned with the components cleared and the state
\* IDLE, the state stays IDLE until the next start() (stated for the runs
\* where the detection worker has left its loop without writing the
\* detector's state after stop(), so that only an interaction workflow of an
\* earlier detection may still be in flight).
C8_IdleAfterStop ==
    [][(/\ main.pc = "idle" /\ main.last = "stop"
        /\ \A w \in DWorkerIds : dworker[w].pc \in {"unborn", "ended"}
        /\ \A d \in DetectorIds : det[d].made => det[d].state = "INACTIVE"
        /\ asst.components = NoComponents
        /\ asst.state = "IDLE"
        /\ main' = main)
          => asst'.state = "IDLE"]_vars

\* C11: start() never raises to its caller: a start() that is over has
\* returned True or False, also when registered listeners fail.
C11_StartNeverRaises ==
    main.pc = "idle" => main.last # "start_raised"

\* C12: a capture device that cannot be opened is surfaced by start(): once
\* start() has returned True (and until stop()), the capture thread of the
\* assistant's microphone has not ended on a failure to open the stream.
C12_DeviceFailureSurfaced ==
    (main.pc = "idle" /\ main.last = "start_true")
        => \A v \in CWorkerIds :
              cworker[v].mic = asst.components.microphone => cworker[v].pc # "ended"

\* the threads in the middle of _set_state: old_state has been read, the
\* write of self.state or the notifications are still to come
InSetState == {t \in Tids : ss[t].pc \in {"write", "notify"}}

\* C13: the assistant state has no concurrent writers: once start() has
\* returned, at most one execution of _set_state is in progress at any time.
C13_OneSetStateAtATime ==
    main.last = "start_true" => Cardinality(InSetState) <= 1

\* C14: frames reach each subscriber in capture order: whenever a capture
\* thread hands its frame to a subscriber, no frame captured later (a higher
\* id) has already been handed to that subscriber by another capture thread
\* of the same microphone.
C14_CaptureOrder ==
    [][\A v1, v2 \in CWorkerIds :
          (/\ v1 # v2
           /\ cworker[v1].mic = cworker[v2].mic
           /\ cworker[v1].pc = "fanout"
           /\ Len(cworker'[v1].got) = Len(cworker[v1].got) + 1)
             => LET callback == cworker'[v1].got[Len(cworker'[v1].got)]
                IN  ~(/\ callback \in Range(cworker[v2].got)
                      /\ cworker[v2].mono_audio.id > cworker[v1].mono_audio.id)]_vars

\* C15: once the frames processed total at least the window capacity, the
\* window passed to the scorer holds exactly the most recent `capacity`
\* samples of the concatenated frames, oldest first.
C15_WindowIsMostRecent ==
    \A w \in DWorkerIds :
        (dworker[w].pc = "score" /\ dworker[w].frame >= BufferSize)
            => dworker[w].audio_buffer =
                   SampleRun(dworker[w].frame - BufferSize, BufferSize)

\* C16: the sliding window of a detection thread always holds exactly
\* `capacity` samples: all zeros until the first frame, and still `capacity`
\* samples after an update by a frame of any length (zero, above capacity).
C16_WindowLength ==
    \A w \in DWorkerIds :
        /\ Len(dworker[w].audio_buffer) = BufferSize
        /\ (dworker[w].pc \in {"loop", "get"} /\ dworker[w].frame = 0 /\ fed = 0)
              => dworker[w].audio_buffer = ZeroBuffer

\* an over-long frame (dropped by the failed update) and then a one-sample
\* frame have been taken: the window is zeros followed by that sample
C16_Witness ==
    /\ dworker[1].pc = "score"
    /\ dworker[1].frame = BufferSize + 2
    /\ dworker[1].audio_buffer[BufferSize] = <<BufferSize + 2, 1>>
    /\ dworker[1].audio_buffer[1] = Zero

\* C17: with a scorer that returns 0.0 for every window, the callback is
\* never invoked and the detector's state is never DETECTED, whatever
\* threshold set_sensitivity has accepted (0.0 included).
C17_NoDetectionWhenQuiet ==
    /\ detections = <<>>
    /\ \A d \in DetectorIds : det[d].state # "DETECTED"
    /\ \A w \in DWorkerIds : dworker[w].pc \notin {"callback", "in_callback", "cooldown"}
    /\ \A d \in DetectorIds : det[d].trigger_threshold \in {0, DefaultThreshold, 100}

\* the threshold is 0.0 and every frame fed has been scored 0.0
C17_Witness ==
    /\ det[1].trigger_threshold = 0
    /\ det[1].running
    /\ fed = MaxFrames
    /\ dworker[1].pc = "loop"
    /\ dworker[1].frame = MaxFrames
    /\ dworker[1].confidence = 0

\* detection thread w passes the threshold test in this step
Fires(w) == dworker[w].pc = "score" /\ dworker'[w].pc = "callback"

\* C18: a detection is raised only when the scorer's confidence for the
\* window is strictly greater than the threshold in force (equality raises
\* none) and no thread of the detector is in the cooldown sleep, and the
\* callback receives exactly the confidence the scorer returned.
C18_StrictThresholdNoCooldown ==
    [][/\ \A w \in DWorkerIds : Fires(w) =>
             /\ dworker'[w].confidence > det[dworker[w].det].trigger_threshold
             /\ ~InCooldown(dworker[w].det)
       /\ Len(detections') > Len(detections) =>
             \E w \in DWorkerIds :
                /\ dworker[w].pc = "callback"
                /\ detections'[Len(detections')].confidence = dworker[w].confidence]_vars

\* C19: a scorer that raises is contained: in that step no detection is
\* raised, the detector's fields (its state among them) and the window are
\* unchanged and the thread is back at its loop test; and a detection thread
\* ends only at the loop test of a stopped detector.
C19_ScorerFailureContained ==
    [][\A w \in DWorkerIds :
          /\ DScore(w, RAISE, MaxDetections) =>
                /\ det' = det
                /\ detections' = detections
                /\ dworker'[w].pc = "loop"
                /\ dworker'[w].audio_buffer = dworker[w].audio_buffer
          /\ (dworker[w].pc # "ended" /\ dworker'[w].pc = "ended") =>
                /\ dworker[w].pc = "loop"
                /\ ~det[dworker[w].det].running]_vars

\* the scorer raised for one frame (logged, no callback has run) and the
\* frame that follows has been shifted into the window and is being scored
C19_Witness ==
    /\ dworker[1].logged
    /\ detections = <<>>
    /\ det[1].running /\ det[1].state = "LISTENING"
    /\ dworker[1].pc = "score"
    /\ dworker[1].frame = 2
    /\ dworker[1].audio_buffer[BufferSize] = <<2, 1>>
    /\ dworker[1].audio_buffer[BufferSize - 1] = <<1, 1>>

\* detection thread w is between self.state = DETECTED and the
\* self.state = LISTENING that follows the cooldown
Handling(w) == dworker[w].pc \in {"callback", "in_callback", "cooldown"}

\* C20: while the detector keeps running, a state DETECTED is on its way
\* back to LISTENING whatever the callback does: a detection thread of the
\* detector is in the callback or in the cooldown that ends with
\* self.state = LISTENING.
C20_DetectedReturnsToListening ==
    \A d \in DetectorIds :
        (det[d].running /\ det[d].state = "DETECTED")
            => \E w \in DWorkerIds : dworker[w].det = d /\ Handling(w)

\* the window after the samples 1..last have been shifted into a window of
\* zeros, one after the other
WindowAfter(last) ==
    [i \in 1..BufferSize |->
        IF last - BufferSize + i >= 1 THEN <<last - BufferSize + i, 1>> ELSE Zero]

\* C21: every frame process_audio accepted while the detector runs, one that
\* arrived during the time.sleep(1.0) included, has been shifted into the
\* window once and in arrival order when the thread scores: the window is the
\* zeros followed by all the samples accepted up to the frame just taken.
C21_EveryFrameShiftedInOrder ==
    \A w \in DWorkerIds :
        dworker[w].pc = "score"
            => dworker[w].audio_buffer = WindowAfter(dworker[w].frame)

\* self.running as the detection thread w / the capture thread v reads it
DRunning(w) == dworker[w].det # 0 /\ det[dworker[w].det].running
CRunning(v) == cworker[v].mic # 0 /\ mic[cworker[v].mic].running

\* detection thread w is alive and its detector's flag is cleared
DCancelled(w) == dworker[w].pc \notin {"unborn", "ended"} /\ ~DRunning(w)

\* capture thread v is alive and its microphone's flag is cleared
CCancelled(v) == cworker[v].pc \notin {"unborn", "ended"} /\ ~CRunning(v)

\* a frame leaves the queue of detector d / of microphone m in this step
DTaken(d) == Len(det'[d].audio_queue) < Len(det[d].audio_queue)
CTaken(m) == Len(mic'[m].audio_queue) < Len(mic[m].audio_queue)

\* the steps a detection thread / a capture thread is from its end once the
\* flag is cleared (the poll first, the loop test last)
DRank(w) ==
    CASE dworker[w].pc = "get" -> 6
      [] dworker[w].pc = "score" -> 5
      [] dworker[w].pc = "callback" -> 4
      [] dworker[w].pc = "in_callback" -> 3
      [] dworker[w].pc = "cooldown" -> 2
      [] dworker[w].pc = "loop" -> 1
      [] OTHER -> 0

CRank(v) ==
    CASE cworker[v].pc = "get" -> 4 + Len(mic[cworker[v].mic].callbacks)
      [] cworker[v].pc = "fanout" -> 3 + Len(mic[cworker[v].mic].callbacks) - cworker[v].idx
      [] cworker[v].pc = "open" -> 2
      [] cworker[v].pc = "loop" -> 1
      [] OTHER -> 0

\* C22: a thread of either component goes to its queue only after a loop
\* test that found the flag set and takes a frame only from there, so with
\* the flag cleared (and no start() after) it takes at most the one frame of
\* the poll it was in; and it then ends, whether its queue is empty or not:
\* it always has a step to take and each step brings it nearer to its end.
C22_WorkersHonourStop ==
    /\ [][/\ \A w \in DWorkerIds :
              /\ (dworker[w].pc # "get" /\ dworker'[w].pc = "get")
                    => (dworker[w].pc = "loop" /\ DRunning(w))
              /\ (DCancelled(w) /\ ~DRunning(w)' /\ dworker'[w] # dworker[w])
                    => DRank(w)' < DRank(w)
          /\ \A d \in DetectorIds :
              DTaken(d) => \E w \in DWorkerIds :
                  dworker[w].det = d /\ dworker[w].pc = "get" /\ dworker'[w].pc # "get"
          /\ \A v \in CWorkerIds :
              /\ (cworker[v].pc # "get" /\ cworker'[v].pc = "get")
                    => (cworker[v].pc = "loop" /\ CRunning(v))
              /\ (CCancelled(v) /\ ~CRunning(v)' /\ cworker'[v] # cworker[v])
                    => CRank(v)' < CRank(v)
          /\ \A m \in MicIds :
              CTaken(m) => \E v \in CWorkerIds :
                  cworker[v].mic = m /\ cworker[v].pc = "get" /\ cworker'[v].pc # "get"]_vars
    /\ [](\A w \in DWorkerIds :
            DCancelled(w) => ENABLED <<DWorkerStepCancel(w)>>_dworker)
    /\ [](\A v \in CWorkerIds :
            CCancelled(v) => ENABLED <<CWorkerStep(v)>>_cworker)

\* the detector was stopped while its thread was in the poll with two frames
\* queued: the thread has ended having taken one of them, the other is left
C22_Witness ==
    /\ ~det[1].running /\ dworker[1].pc = "ended" /\ dworker[1].frame = 1
    /\ Len(det[1].audio_queue) = 1 /\ det[1].audio_queue[1].id = 2

\* C23: start_capture() on a microphone that is running changes nothing (the
\* flag, the thread handle, the queue, the callbacks and the threads are as
\* before), and no capture thread is created for a running microphone.
C23_StartCaptureIdempotent ==
    [][\A m \in MicIds :
          (mic[m].made /\ mic[m].running) =>
              /\ CallMicStartCapture(m) => (mic' = mic /\ cworker' = cworker)
              /\ \A v \in CWorkerIds :
                    (cworker[v].pc = "unborn" /\ cworker'[v].pc # "unborn")
                        => cworker'[v].mic # m]_vars

\* start_capture() has returned with its warning on a microphone whose one
\* thread is at work with a block queued and a subscriber registered
C23_Witness ==
    /\ main.pc = "idle" /\ main.last = "mic_start_warned"
    /\ mic[1].running /\ mic[1].capture_thread = 1
    /\ cworker[1].pc = "get" /\ cworker[2].pc = "unborn"
    /\ Len(mic[1].audio_queue) = 1 /\ mic[1].callbacks # <<>>

\* the frame the next process_audio() call passes to detector d
NextFrame(d) == [id |-> fed + 1, data |-> OneSample(fed + 1), cd |-> InCooldown(d)]

\* C24: process_audio() on a detector that is not running changes nothing
\* (queue, threads and their windows, state, threshold); on a running one it
\* appends the frame at the tail of the queue and changes nothing else. A
\* queue changes only so or by its head being taken, and a thread scores only
\* the frame it took from the head: a frame passed while not running is never
\* scored.
C24_ProcessAudioOnlyWhenRunning ==
    [][/\ fed' = fed + 1 =>
             IF det[1].running
             THEN det' = [det EXCEPT ![1].audio_queue = Append(@, NextFrame(1))]
                  /\ dworker' = dworker
             ELSE det' = det /\ dworker' = dworker
       /\ \A d \in DetectorIds :
             det'[d].audio_queue # det[d].audio_queue =>
                 \/ (fed' = fed + 1 /\ det[d].running)
                 \/ (fed' = fed /\ det'[d].audio_queue = Tail(det[d].audio_queue))
       /\ \A w \in DWorkerIds :
             (dworker'[w].pc = "score" /\ dworker[w].pc # "score") =>
                 /\ det[dworker[w].det].audio_queue # <<>>
                 /\ dworker'[w].frame = Head(det[dworker[w].det].audio_queue).id]_vars

\* frame 1 was passed before start() and frame 2 after it: the thread is
\* scoring frame 2 in a window that never held frame 1, and the queue is empty
C24_Witness ==
    /\ fed = 2 /\ det[1].running /\ det[1].audio_queue = <<>>
    /\ dworker[1].pc = "score" /\ dworker[1].frame = 2 /\ ~dworker[1].logged
    /\ dworker[1].audio_buffer = [i \in 1..BufferSize |->
                                    IF i = BufferSize THEN <<2, 1>> ELSE Zero]

\* C25: set_sensitivity(t) stores t when 0.0 <= t <= 1.0 and otherwise leaves
\* the threshold as it was; it changes nothing else and always returns; so
\* the threshold of a detector constructed with one in [0.0, 1.0] stays there.
C25_SensitivityInRange ==
    /\ [](\A d \in DetectorIds :
            det[d].made => (0 <= det[d].trigger_threshold /\ det[d].trigger_threshold <= 100))
    /\ [](main.pc = "idle" =>
            \A threshold \in Thresholds : ENABLED CallDetSetSensitivity(1, threshold))
    /\ [][\A threshold \in Thresholds :
            CallDetSetSensitivity(1, threshold) =>
                det' = [det EXCEPT ![1].trigger_threshold =
                          IF 0 <= threshold /\ threshold <= 100 THEN threshold ELSE @]]_vars

\* the threshold has been set to 1.0, the upper end of the range, and the
\* thread is scoring a window under it
C25_Witness ==
    /\ det[1].trigger_threshold = 100
    /\ det[1].running
    /\ dworker[1].pc = "score" /\ dworker[1].frame = 1

\* capture thread v calls the lambda registered for detector d in this step
Delivers(v, d) ==
    /\ cworker[v].pc = "fanout"
    /\ Len(cworker'[v].got) = Len(cworker[v].got) + 1
    /\ cworker'[v].got[Len(cworker'[v].got)] = DetSubscriber(d)

\* C26: start() registers the detector's process_audio with the microphone,
\* then starts the detector, then starts the capture. A detector that runs
\* is a subscriber of the assistant's microphone; a microphone that has been
\* started (its flag is set or it has a capture thread) has the running
\* detector of the same assistant as a subscriber; and every frame a capture
\* thread hands to that detector is appended to the detector's queue (none
\* is dropped for the detector not running), the frames that arrive while
\* start() is still at work included.
C26_GateRunsBeforeCapture ==
    /\ [](\A d \in DetectorIds :
            (det[d].made /\ det[d].running) =>
                /\ asst.components.wake_word = d
                /\ asst.components.microphone \in MicIds
                /\ DetSubscriber(d) \in Range(mic[asst.components.microphone].callbacks))
    /\ [](\A m \in MicIds :
            (mic[m].made /\ (mic[m].running \/ \E v \in CWorkerIds : cworker[v].mic = m))
                => \E d \in DetectorIds :
                      /\ asst.components = [microphone |-> m, wake_word |-> d]
                      /\ DetSubscriber(d) \in Range(mic[m].callbacks)
                      /\ det[d].running)
    /\ [][\A v \in CWorkerIds : \A d \in DetectorIds :
            Delivers(v, d) =>
                det'[d].audio_queue = Append(det[d].audio_queue, cworker[v].mono_audio)]_vars

\* start() has started the capture and has not loaded the skills yet, and
\* the first block the hardware delivered has already gone through the
\* capture thread into the detector, whose thread scores it
C26_Witness ==
    /\ main.pc = "load_skills" /\ asst.skills = {}
    /\ cworker[1].mono_audio.id = 1 /\ cworker[1].res = "ok"
    /\ dworker[1].pc = "score" /\ dworker[1].frame = 1

\* Assistant.stop() has reached the detector's stop(), or is past it
GateStopReached ==
    \/ main.pc = "det_join" /\ main.ret = "asst_stop"
    \/ main.pc = "stop_set_idle"
    \/ main.pc = "idle" /\ main.last \in {"stop", "stop_raised"}

\* C27: stop() stops the microphone before the detector: from the moment
\* stop() calls the detector's stop(), the capture of every microphone the
\* assistant started has been stopped (its flag is cleared).
C27_SourceStoppedBeforeGate ==
    GateStopReached => \A m \in MicIds : mic[m].made => ~mic[m].running

\* thread t assigns self.state in this step
Writes(t) == ss[t].pc = "write" /\ ss'[t].pc # "write"

\* the steps interaction thread k is from its end
FlowRank(k) ==
    LET stage == CASE flow[k].pc = "processing" -> 3
                   [] flow[k].pc = "responding" -> 2
                   [] flow[k].pc = "idle" -> 1
                   [] OTHER -> 0
        call == CASE ss[FlowTid(k)].pc = "read" -> 3
                  [] ss[FlowTid(k)].pc = "write" -> 2
                  [] ss[FlowTid(k)].pc = "notify" -> 1
                  [] OTHER -> 0
    IN  4 * stage + call

\* interaction thread k has been started and has not ended
InProgress(k) == flow[k].pc \in {"processing", "responding", "idle"}

\* C28: one detection, no failure: the callback sets LISTENING and only then
\* starts the interaction thread, whose assignments are PROCESSING, then
\* RESPONDING, then IDLE; the thread always has a step to take and each step
\* brings it nearer to its end; once it has ended the state is IDLE; and,
\* the interaction thread being scheduled fairly, a thread that has been
\* started does end, and the state is IDLE when it ends.
C28_DetectionReturnsToIdle ==
    /\ [][\A k \in FlowIds :
            /\ (flow[k].pc = "unborn" /\ flow'[k].pc # "unborn") =>
                    \E w \in DWorkerIds :
                        /\ ss[WorkerTid(w)].pc = "done"
                        /\ ss[WorkerTid(w)].new = "LISTENING"
                        /\ flow'[k].pc = "processing"
            /\ Writes(FlowTid(k)) =>
                    asst'.state = CASE flow[k].pc = "processing" -> "PROCESSING"
                                    [] flow[k].pc = "responding" -> "RESPONDING"
                                    [] OTHER -> "IDLE"
            /\ flow'[k] # flow[k] \/ ss'[FlowTid(k)] # ss[FlowTid(k)] =>
                    FlowRank(k)' < FlowRank(k) \/ flow[k].pc = "unborn"]_vars
    /\ [](\A k \in FlowIds :
            flow[k].pc \in {"processing", "responding", "idle"} =>
                ENABLED <<FlowStep(k) \/ SetStateRead(FlowTid(k)) \/ SetStateWrite(FlowTid(k))
                            \/ SetStateNotify(FlowTid(k), FALSE)>>_<<flow, ss>>)
    /\ []((/\ Len(detections) = 1
            /\ \E k \in FlowIds : flow[k].pc = "done"
            /\ \A t \in Tids : ss[t].pc = "none") => asst.state = "IDLE")
    /\ \A k \in FlowIds :
          InProgress(k) ~> (flow[k].pc = "done" /\ asst.state = "IDLE")

\* the one detection's interaction thread has ended while the assistant is
\* still started: the state went LISTENING, PROCESSING, RESPONDING and is IDLE
C28_Witness ==
    /\ main.pc = "idle" /\ main.last = "start_true"
    /\ Len(detections) = 1
    /\ flow[1].pc = "done"
    /\ asst.state = "IDLE"
    /\ det[1].running

\* C29: _on_wake_word_detected starts the interaction thread and returns
\* without waiting for it: in the step that creates the thread the detection
\* thread goes on to its time.sleep(1.0) while the new thread has not run yet;
\* the callback can return as soon as its _set_state(LISTENING) is over, and
\* the detection thread always has a step of its own (or of the _set_state
\* call it is in) to take, whatever the interaction threads and start() are
\* doing.
C29_WorkflowDoesNotBlockWorker ==
    /\ [][\A k \in FlowIds :
            (flow[k].pc = "unborn" /\ flow'[k].pc # "unborn") =>
                /\ InProgress(k)' /\ ss'[FlowTid(k)].pc = "read"
                /\ \E w \in DWorkerIds :
                      dworker[w].pc = "in_callback" /\ dworker'[w].pc = "cooldown"]_vars
    /\ [](\A w \in DWorkerIds :
            (dworker[w].pc = "in_callback" /\ ss[WorkerTid(w)].pc = "done")
                => ENABLED DCallbackReturn(w, FALSE))
    /\ [](\A w \in DWorkerIds :
            dworker[w].pc \notin {"unborn", "ended"} =>
                \/ ENABLED <<\/ DLoopCheck(w)
                             \/ DGet(w)
                             \/ \E outcome \in {0, 90} : DScore(w, outcome, MaxWakes)
                             \/ DCallback(w)
                             \/ DCallbackReturn(w, FALSE)
                             \/ DCooldownEnd(w)>>_dworker
                \/ ENABLED <<SetStateRead(WorkerTid(w)) \/ SetStateWrite(WorkerTid(w))
                               \/ SetStateNotify(WorkerTid(w), FALSE)>>_ss)

\* the interaction thread of the first detection has not made its first
\* assignment yet, and the detection thread is past its cooldown, scoring the
\* next frame
C29_Witness ==
    /\ flow[1].pc = "processing" /\ ss[FlowTid(1)].pc = "read"
    /\ asst.state = "LISTENING"
    /\ Len(detections) = 1 /\ detections[1].frame = 1
    /\ dworker[1].pc = "score" /\ dworker[1].frame = 2

\* no element of the sequence occurs twice
NoDuplicates(s) == \A i, j \in 1..Len(s) : s[i] = s[j] => i = j

\* the sequence without x, the others in their order
Without(s, x) == SelectSeq(s, LAMBDA y : y # x)

\* C30: both registries are ordered sets. No callback is registered twice;
\* registering a registered one and removing an unregistered one change
\* nothing; registering a new one puts it last and removing one leaves the
\* others in their order; and a fan-out calls the registered callbacks in
\* that order.
C30_RegistriesAreOrderedSets ==
    /\ [](/\ NoDuplicates(asst.listeners)
          /\ \A m \in MicIds : NoDuplicates(mic[m].callbacks)
          /\ \A v \in CWorkerIds :
                cworker[v].pc = "fanout" =>
                    cworker[v].got = SubSeq(mic[cworker[v].mic].callbacks, 1, cworker[v].idx - 1)
          /\ \A t \in Tids :
                ss[t].pc \in {"notify", "done", "raised"} =>
                    ss[t].called = SubSeq(asst.listeners, 1, ss[t].idx - 1))
    /\ [][/\ \A j \in SubscriberIds :
              LET callback == ExtSubscriber(j)
                  registered == callback \in Range(mic[1].callbacks)
              IN  /\ CallMicAddAudioCallback(1, callback) =>
                        mic'[1].callbacks = IF registered THEN mic[1].callbacks
                                            ELSE Append(mic[1].callbacks, callback)
                  /\ CallMicRemoveAudioCallback(1, callback) =>
                        mic'[1].callbacks = Without(mic[1].callbacks, callback)
          /\ \A l \in ListenerIds :
              LET registered == l \in Range(asst.listeners)
              IN  /\ AsstAddStateListener(l) =>
                        asst'.listeners = IF registered THEN asst.listeners
                                          ELSE Append(asst.listeners, l)
                  /\ AsstRemoveStateListener(l) =>
                        asst'.listeners = Without(asst.listeners, l)]_vars

\* subscriber 2 was registered before subscriber 1 and a block has been
\* handed to them in that order; listener 2 was registered before listener 1
\* and a transition has been notified to them in that order
C30_Witness ==
    /\ mic[1].callbacks = <<ExtSubscriber(2), ExtSubscriber(1)>>
    /\ cworker[1].got = mic[1].callbacks /\ cworker[1].res = "ok"
    /\ asst.listeners = <<2, 1>>
    /\ ss[MainTid].called = asst.listeners /\ ss[MainTid].pc = "done"

\* how many times x occurs in the sequence
Count(s, x) == Cardinality({i \in 1..Len(s) : s[i] = x})

\* capture thread v leaves the for loop over the callbacks in this step
FanoutEnds(v) == cworker[v].pc = "fanout" /\ cworker'[v].pc = "loop"

\* C31: subscriber 2 stays registered throughout; whenever a fan-out of a
\* frame ends, subscriber 2 has been called exactly once for that frame,
\* also when subscriber 1 was removed or registered during the fan-out.
C31_RegisteredCallbackCalledOnce ==
    [][\A v \in CWorkerIds :
          FanoutEnds(v) => Count(cworker'[v].got, ExtSubscriber(2)) = 1]_vars

\* np.mean(audio_data, axis=1): the average of the channels, per sample
ChannelMean(audio_data) ==
    [i \in 1..Len(audio_data) |-> Frac(SeqSum(audio_data[i]), Len(audio_data[i]))]

AllZero(audio_data) ==
    \A i \in 1..Len(audio_data) : \A c \in 1..Len(audio_data[i]) : audio_data[i][c] = 0

\* capture thread v takes a block off the queue and mixes it down in this step
Dequeues(v) ==
    /\ cworker[v].pc = "get"
    /\ mic[cworker[v].mic].audio_queue # <<>>
    /\ cworker'[v].pc # "get"

MixIn(v) == Head(mic[cworker[v].mic].audio_queue).data

\* C32 (as amended): the mono frame has as many samples as the block; if the
\* channel averages of the block are not all zero its largest absolute value
\* is 1; if they are all zero (an all-zero block, or channels that cancel in
\* every sample) it is all zero, and the division is not made.
C32_MixdownNormalised ==
    [][\A v \in CWorkerIds :
          Dequeues(v) =>
             LET out == cworker'[v].mono_audio.data
                 mean == ChannelMean(MixIn(v))
             IN  /\ Len(out) = Len(MixIn(v))
                 /\ (\E i \in 1..Len(mean) : mean[i] # Zero) => PeakOf(out) = <<1, 1>>
                 /\ (\A i \in 1..Len(mean) : mean[i] = Zero) =>
                        \A i \in 1..Len(out) : out[i] = Zero]_vars

\* a two-sample block has been mixed down to a frame whose samples differ and
\* whose peak is 1
C32_Witness ==
    /\ cworker[1].pc = "fanout"
    /\ Len(cworker[1].mono_audio.data) = 2
    /\ cworker[1].mono_audio.data[1] # cworker[1].mono_audio.data[2]
    /\ PeakOf(cworker[1].mono_audio.data) = <<1, 1>>

\* C32 (as stated): every block that is not all zero is mixed down to a frame
\* whose largest absolute value is 1.
C32_NonZeroBlockHasPeakOne ==
    [][\A v \in CWorkerIds :
          (Dequeues(v) /\ ~AllZero(MixIn(v))) =>
             PeakOf(cworker'[v].mono_audio.data) = <<1, 1>>]_vars

\* the 0-based indices of the input-capable devices whose name contains the
\* hint, letter case aside
Candidates(devices, hint) ==
    {i \in 0..(Len(devices) - 1) :
        /\ devices[i + 1].max_input_channels > 0
        /\ \E k \in 0..(Len(devices[i + 1].name) - Len(hint)) :
              \A j \in 1..Len(hint) :
                 LowerChar(devices[i + 1].name[k + j]) = LowerChar(hint[j])}

\* what the hint selects among the devices: nothing without a hint
Hinted(devices, device_name) ==
    IF Truthy(device_name) THEN Candidates(devices, device_name.str) ELSE {}

\* C33: a construction with a (non-empty) name hint that some input-capable
\* device matches selects the first such device in enumeration order; one
\* with no hint, or with a hint nothing matches, selects the default input
\* device; the construction fails exactly when nothing is selected by the
\* hint and there is no default input device.
C33_DeviceSelection ==
    main.last \in {"mic_init", "mic_init_raised"} =>
       LET hinted == Hinted(mic[1].pa_devices, mic[1].device_name)
           default == mic[1].pa_default
       IN  /\ hinted # {} =>
                 /\ mic[1].made
                 /\ mic[1].device_id \in hinted
                 /\ \A i \in hinted : mic[1].device_id <= i
           /\ (hinted = {} /\ default # -1) =>
                 mic[1].made /\ mic[1].device_id = default
           /\ (hinted = {} /\ default = -1) <=> main.last = "mic_init_raised"
           /\ main.last = "mic_init_raised" <=> ~mic[1].made

\* the hint 'B' has selected device 1 named 'ab' (an upper-case hint matches
\* a lower-case name) after passing over the input-capable device 0 named
\* 'a', and its stream has been opened
C33_Witness ==
    /\ mic[1].made
    /\ mic[1].device_name = Name(<<"B">>)
    /\ mic[1].device_id = 1
    /\ mic[1].pa_devices[1] = [name |-> <<"a">>, max_input_channels |-> MicChannels]
    /\ mic[1].pa_devices[2].name = <<"a", "b">>
    /\ \E v \in CWorkerIds : cworker[v].mic = 1 /\ cworker[v].pc = "loop"

\* the worker threads of detector d, and the capture threads of microphone m,
\* that have passed the loop test and are taking a frame off the queue
DConsumers(d) == {w \in DWorkerIds : dworker[w].det = d /\ dworker[w].pc = "get"}
CConsumers(m) == {v \in CWorkerIds : cworker[v].mic = m /\ cworker[v].pc = "get"}

\* C34: of each component at most one worker thread is inside the loop,
\* consuming from the component's queue, at any time.
C34_OneWorkerPerComponent ==
    /\ \A d \in DetectorIds : Cardinality(DConsumers(d)) <= 1
    /\ \A m \in MicIds : Cardinality(CConsumers(m)) <= 1

\* C35: at most one interaction thread is between its start and its last
\* _set_state(IDLE) at any time.
C35_OneWorkflowInFlight ==
    Cardinality({k \in FlowIds : InProgress(k)}) <= 1

\* C36: no frame is passed to the detector after its restart, so the window
\* of every thread started by a restart (every thread but the first) holds
\* nothing but its zero padding: no frame queued before the stop reaches it.
C36_RestartResetsAudio ==
    \A w \in DWorkerIds \ {1} : dworker[w].audio_buffer = ZeroBuffer

\* C37: the detection callback is entered only while the detector is running
\* or its stop() is still waiting in the join: never once stop() has returned
\* and start() has not been called again.
C37_NoDetectionAfterStop ==
    [][\A w \in DWorkerIds :
          (dworker[w].pc = "callback" /\ dworker'[w].pc = "in_callback") =>
             (det[dworker[w].det].running \/ InDetStop(dworker[w].det))]_vars

\* C38: at most one detector and at most one microphone are running, and a
\* running one is the one the assistant's component table refers to.
C38_RunningComponentsAreOwned ==
    /\ Cardinality({d \in DetectorIds : det[d].running}) <= 1
    /\ Cardinality({m \in MicIds : mic[m].running}) <= 1
    /\ \A d \in DetectorIds : det[d].running => asst.components.wake_word = d
    /\ \A m \in MicIds : mic[m].running => asst.components.microphone = m

\* C39: a detection thread whose window was scored above the threshold goes
\* on from the callback to the cooldown sleep and nowhere else: it is at the
\* loop test again only when the sleep is over.
C39_CooldownFollowsEveryDetection ==
    [][\A w \in DWorkerIds :
          (dworker[w].pc \in {"callback", "in_callback"}
             /\ dworker'[w].pc # dworker[w].pc) =>
                dworker'[w].pc \in {"in_callback", "cooldown"}]_vars
====
